---- MODULE Spec2Model ----
(***************************************************************************)
(* Frametime-Analysis: the statistical engine (statsManager.js in its      *)
(* latest variant, src/unnamed/part_003, and the hypothesis tests of       *)
(* src/scripts/chartManager.js).                                           *)
(*                                                                         *)
(* Numbers.  A JavaScript number is modelled as an extended rational       *)
(* <<num, den>> in lowest terms with den >= 0:  den > 0 is a finite value, *)
(* <<1,0>> is Infinity, <<-1,0>> is -Infinity and <<0,0>> is NaN.  The     *)
(* arithmetic below follows IEEE-754 on these special values (x/0, 0/0,    *)
(* comparisons with NaN, Math.min/Math.max with NaN).  Finite results are  *)
(* exact: the rounding error of doubles is not modelled, and there is no   *)
(* negative zero.  Sample values are integers.                             *)
(*                                                                         *)
(* Strings that the code inspects character by character (metric names,    *)
(* column names) are sequences of one-character strings.                   *)
(***************************************************************************)
EXTENDS Integers, Sequences, FiniteSets, TLC

VARIABLES
  arr,          \* calculateStatistics: the sample `arr`
  metricName,   \* calculateStatistics: the `metricName` argument
  stats,        \* the StatisticsResult returned for (arr, metricName), or NoResult
  header,       \* a dataset: its column names, in column order
  rows,         \* a dataset: its rows, each the cells of the columns of header
  resolved,     \* per metric, rows.map(r => getMetricValue(r, metric)), or NoResult
  series,       \* per metric, resolved filtered to the numbers, or NoResult
  frametimes,   \* analyzeFramePacing: the `frametimes` argument
  pacing,       \* the PacingResult returned for frametimes, or NoResult
  sampleA,      \* the hypothesis tests: the sample `a`
  sampleB,      \* the hypothesis tests: the sample `b`
  lastChange,   \* how (sampleA, sampleB) came from the samples of the call before
  mw,           \* what runMannWhitneyTest(sampleA, sampleB) returned, or NoResult
  mwBefore,     \* what it returned for the samples before the last change
  ks,           \* what runKolmogorovSmirnovTest(sampleA, sampleB) returned, or NoResult
  ksBefore,     \* what it returned for the samples before the last change
  testType,     \* runStatisticalTest: the test selected in #testSelect
  dataA,        \* runStatisticalTest: the values of dataset A
  dataB,        \* runStatisticalTest: the values of dataset B
  report,       \* what runStatisticalTest wrote and what the test returned, or NoResult
  rowIn,        \* normaliseRow: the row object before the call, as <<key, cell>> pairs
  rowOut,       \* [row |-> the row object after normaliseRow(rowIn)], or NoResult
  bootData,     \* bootstrapConfidenceInterval: the `data` argument
  bootFunc,     \* the `statFunc` argument, by name
  bootIterations,\* the `iterations` argument
  bootLevel,    \* the `confidenceLevel` argument
  bootStats,    \* the array bootStats, as far as the loop has filled it
  bootPc,       \* where the call is: idle, resampling or returned
  bootCI,       \* what the call returned, or NoResult
  argA,         \* a call of one of the test functions: its first sample array, before the call
  argB,         \* its second sample array, before the call
  callee,       \* the function called, by name
  arrays,       \* the array objects after the call (1: the first argument, 2: the second), or none
  files,        \* the files of the upload, each as the outcome its reader will have
  completed,    \* the files whose reader has completed, in the order of completion
  successCount, \* successCount of the handleFileUpload call
  errorCount,   \* errorCount of the handleFileUpload call
  allDatasets,  \* window.allDatasets: the files (by position) that became datasets
  refreshCalls, \* per call of refreshDatasetLists, the number of readers still to complete
  measured,     \* calculateStatistics on doubles: the sample `arr`, each value an IEEE double
  measuredAs,   \* its `metricName` argument
  aggregates,   \* the fields it returned, each an IEEE double, or NoResult
  chartDatasets,\* window.chartDatasets: per dataset its label and, for the history, the chart type of the addToChart call that built it
  currentChartType,\* window.currentChartType
  mainChart,    \* window.mainChart: null, a chart, or a chart that was destroyed
  lastCall      \* the last call of addToChart, moveDataset, removeDataset or clearChart, with its inputs

statsVars == <<arr, metricName, stats>>

metricVars == <<header, rows, resolved, series>>

pacingVars == <<frametimes, pacing>>

testVars == <<sampleA, sampleB, lastChange, mw, mwBefore, ks, ksBefore>>

suiteVars == <<testType, dataA, dataB, report>>

rowVars == <<rowIn, rowOut>>

bootVars == <<bootData, bootFunc, bootIterations, bootLevel, bootStats, bootPc, bootCI>>

argVars == <<argA, argB, callee, arrays>>

uploadVars == <<files, completed, successCount, errorCount, allDatasets, refreshCalls>>

doubleVars == <<measured, measuredAs, aggregates>>

chartVars == <<chartDatasets, currentChartType, mainChart, lastCall>>

vars == <<statsVars, metricVars, pacingVars, testVars, suiteVars, rowVars, bootVars, argVars, uploadVars, doubleVars, chartVars>>

\* no result computed yet for the current inputs
NoResult == [none |-> TRUE]

----------------------------------------------------------------------------
(* Extended rationals *)

NaN == <<0, 0>>

PosInf == <<1, 0>>

NegInf == <<-1, 0>>

AbsInt(i) == IF i < 0 THEN -i ELSE i

SignInt(i) == IF i < 0 THEN -1 ELSE IF i > 0 THEN 1 ELSE 0

RECURSIVE GCD(_, _)
GCD(a, b) == IF b = 0 THEN a ELSE GCD(b, a % b)

\* the number num/den, in lowest terms, den >= 0
Norm(num, den) ==
  IF den = 0 THEN <<SignInt(num), 0>>
  ELSE LET g == GCD(AbsInt(num), AbsInt(den))
           s == IF den < 0 THEN -1 ELSE 1
       IN  <<(s * num) \div g, (s * den) \div g>>

R(i) == <<i, 1>>

IsNaN(x) == x = NaN

IsFinite(x) == x[2] > 0

\* x + y
RAdd(x, y) ==
  IF x[2] = 0 /\ y[2] = 0
  THEN (IF x = y THEN x ELSE NaN)
  ELSE IF x[2] = 0 THEN x
  ELSE IF y[2] = 0 THEN y
  ELSE LET g == GCD(x[2], y[2])
       IN  Norm(x[1] * (y[2] \div g) + y[1] * (x[2] \div g), (x[2] \div g) * y[2])

RNeg(x) == <<-x[1], x[2]>>

\* x - y
RSub(x, y) == RAdd(x, RNeg(y))

\* x * y
RMul(x, y) == Norm(x[1] * y[1], x[2] * y[2])

\* x / y  (1/0 is Infinity, 0/0 is NaN)
RDiv(x, y) == Norm(x[1] * y[2], x[2] * y[1])

\* x < y ; false when either is NaN
RLt(x, y) ==
  /\ ~IsNaN(x)
  /\ ~IsNaN(y)
  /\ IF x[2] = 0 /\ y[2] = 0 THEN x[1] < y[1] ELSE x[1] * y[2] < y[1] * x[2]

\* x > y
RGt(x, y) == RLt(y, x)

\* x <= y ; false when either is NaN
RLe(x, y) == ~IsNaN(x) /\ ~IsNaN(y) /\ ~RLt(y, x)

\* Math.abs
RAbs(x) == <<AbsInt(x[1]), x[2]>>

\* Math.min(x, y) and Math.max(x, y): NaN when either argument is NaN
RMin(x, y) == IF IsNaN(x) \/ IsNaN(y) THEN NaN ELSE IF RLt(y, x) THEN y ELSE x

RMax(x, y) == IF IsNaN(x) \/ IsNaN(y) THEN NaN ELSE IF RLt(x, y) THEN y ELSE x

\* Math.floor and Math.ceil of a finite value, as an integer
FloorInt(x) == x[1] \div x[2]

CeilInt(x) == -((-x[1]) \div x[2])

\* Math.round(x) = floor(x + 0.5); NaN and the infinities are returned as they are
RRound(x) == IF IsFinite(x) THEN R(FloorInt(RAdd(x, <<1, 2>>))) ELSE x

MaxInt(a, b) == IF a > b THEN a ELSE b

MinInt(a, b) == IF a < b THEN a ELSE b

----------------------------------------------------------------------------
(* Arrays.  A JavaScript array is a sequence; index i of the code is i + 1. *)

Range(s) == {s[i] : i \in 1..Len(s)}

\* [...s].sort((a, b) => a - b) on finite integers: the ascending arrangement
\* of the same elements (the result of the sort, not its algorithm).
RECURSIVE SortAsc(_)
SortAsc(s) ==
  IF Len(s) <= 1 THEN s
  ELSE LET pivot == s[(Len(s) + 1) \div 2]
           Less(x) == x < pivot
           Same(x) == x = pivot
           More(x) == x > pivot
       IN  SortAsc(SelectSeq(s, Less)) \o SelectSeq(s, Same) \o SortAsc(SelectSeq(s, More))

\* s.reverse()
Reverse(s) == SubSeq([i \in 1..Len(s) |-> s[Len(s) + 1 - i]], 1, Len(s))

\* s.slice(0, c)
SliceHead(s, c) == SubSeq(s, 1, MinInt(c, Len(s)))

\* s.reduce((a, b) => a + b, 0) on integers; exact addition is associative,
\* so the fold is evaluated by halves
RECURSIVE SumRange(_, _, _)
SumRange(s, lo, hi) ==
  IF lo > hi THEN 0
  ELSE IF lo = hi THEN s[lo]
  ELSE LET mid == (lo + hi) \div 2
       IN  SumRange(s, lo, mid) + SumRange(s, mid + 1, hi)

SumInt(s) == SumRange(s, 1, Len(s))

----------------------------------------------------------------------------
(* Strings *)

\* the letters the modelled names are written with, lower case first
LowerCaseOf ==
  [c \in {"A", "F", "P", "S", "T", "M", "B"} |->
     CASE c = "A" -> "a" [] c = "F" -> "f" [] c = "P" -> "p" [] c = "S" -> "s"
       [] c = "T" -> "t" [] c = "M" -> "m" [] c = "B" -> "b"]

UpperCaseOf ==
  [c \in {"a", "f", "p", "s", "t", "m", "b"} |->
     CASE c = "a" -> "A" [] c = "f" -> "F" [] c = "p" -> "P" [] c = "s" -> "S"
       [] c = "t" -> "T" [] c = "m" -> "M" [] c = "b" -> "B"]

\* String.prototype.toLowerCase / toUpperCase
toLowerCase(s) ==
  [i \in 1..Len(s) |-> IF s[i] \in DOMAIN LowerCaseOf THEN LowerCaseOf[s[i]] ELSE s[i]]

toUpperCase(s) ==
  [i \in 1..Len(s) |-> IF s[i] \in DOMAIN UpperCaseOf THEN UpperCaseOf[s[i]] ELSE s[i]]

\* String.prototype.includes
includes(s, sub) ==
  \E k \in 0..(Len(s) - Len(sub)) : SubSeq(s, k + 1, k + Len(sub)) = sub

----------------------------------------------------------------------------
(* statsManager.js *)

\* percentileNearestRank with the 1-based rank used as a 0-based index
percentileRankOffByOne(sortedAsc, p) ==
  IF Len(sortedAsc) = 0 THEN NaN
  ELSE LET rank == CeilInt(RMul(RDiv(p, R(100)), R(Len(sortedAsc))))
       IN  R(sortedAsc[MaxInt(0, MinInt(rank, Len(sortedAsc) - 1)) + 1])

\* percentileNearestRank(sortedAsc, p): p is the percentile as a rational
percentileNearestRank(sortedAsc, p) ==
  IF Len(sortedAsc) = 0 THEN NaN
  ELSE LET rank == CeilInt(RMul(RDiv(p, R(100)), R(Len(sortedAsc)))) - 1
       IN  R(sortedAsc[MaxInt(0, MinInt(rank, Len(sortedAsc) - 1)) + 1])

\* sorted.reduce((s, v) => s + 1 / v, 0), evaluated by halves
RECURSIVE SumRecip(_, _, _)
SumRecip(s, lo, hi) ==
  IF lo > hi THEN R(0)
  ELSE IF lo = hi THEN RDiv(R(1), R(s[lo]))
  ELSE LET mid == (lo + hi) \div 2
       IN  RAdd(SumRecip(s, lo, mid), SumRecip(s, mid + 1, hi))

\* the avg field: harmonic mean for the metric named FPS, else arithmetic mean
statAvg(sorted, name) ==
  IF toUpperCase(name) = <<"F", "P", "S">>
  THEN RDiv(R(Len(sorted)), SumRecip(sorted, 1, Len(sorted)))
  ELSE RDiv(R(SumInt(sorted)), R(Len(sorted)))

\* the flag with the two tests of the heuristic not strict
isFpsMetricNotStrict(name, avg, minVal) ==
  \/ toUpperCase(name) = <<"F", "P", "S">>
  \/ includes(toLowerCase(name), <<"f", "p", "s">>)
  \/ (name = <<>> /\ RLe(R(30), avg) /\ minVal >= 20)

\* the isFpsMetric flag
isFpsMetricOf(name, avg, minVal) ==
  \/ toUpperCase(name) = <<"F", "P", "S">>
  \/ includes(toLowerCase(name), <<"f", "p", "s">>)
  \/ (name = <<>> /\ RGt(avg, R(30)) /\ minVal > 20)

\* the frame count rounded down instead of up
lowCountFloor(n, frac) == MaxInt(1, FloorInt(RMul(R(n), frac)))

\* Math.max(1, Math.ceil(n * frac)): the number of frames in an "X % Low"
lowCount(n, frac) == MaxInt(1, CeilInt(RMul(R(n), frac)))

\* the mean of the c worst frames
lowAverage(sorted, c, isFps) ==
  LET src == IF isFps THEN sorted ELSE Reverse(sorted)
  IN  RDiv(R(SumInt(SliceHead(src, c))), R(c))

\* the percentile argument with the two kinds of metric taken for each other
percentileMarkSwapped(isFps, low, high) == IF isFps THEN high ELSE low

\* the percentile argument of p1 / p01 / p001
percentileMark(isFps, low, high) == IF isFps THEN low ELSE high

\* calculateStatistics(arr, metricName).  stdev is a square root (of jStat, or
\* of the fallback) and is not part of the record.
calculateStatistics(a, name) ==
  IF Len(a) = 0
  THEN [max |-> NaN, min |-> NaN, avg |-> NaN,
        p1 |-> NaN, p01 |-> NaN, p001 |-> NaN,
        low1 |-> NaN, low01 |-> NaN, low001 |-> NaN]
  ELSE LET sorted == SortAsc(a)
           n      == Len(sorted)
           avg    == statAvg(sorted, name)
           isFps  == isFpsMetricOf(name, avg, sorted[1])
       IN  [max    |-> R(sorted[n]),
            min    |-> R(sorted[1]),
            avg    |-> avg,
            p1     |-> percentileNearestRank(sorted, percentileMark(isFps, R(1), R(99))),
            p01    |-> percentileNearestRank(sorted, percentileMark(isFps, <<1, 10>>, <<999, 10>>)),
            p001   |-> percentileNearestRank(sorted, percentileMark(isFps, <<1, 100>>, <<9999, 100>>)),
            low1   |-> lowAverage(sorted, lowCount(n, <<1, 100>>), isFps),
            low01  |-> lowAverage(sorted, lowCount(n, <<1, 1000>>), isFps),
            low001 |-> lowAverage(sorted, lowCount(n, <<1, 10000>>), isFps)]

----------------------------------------------------------------------------
(* Inputs of calculateStatistics *)

\* longest sample built value by value
MaxLen == 3

\* values of a sample built value by value (frame times in ms, or FPS): on
\* both sides of the minimum 20 and, as 24 and 36, with the mean 30
SampleValues == {0, 1, 2, 20, 21, 24, 31, 36, 60}

\* lengths of the loaded captures: on both sides of the steps of lowCount
\* (100 | 101, 200 | 201 for 1 %, 1001 for 0.1 %, 10001 for 0.01 %)
CaptureSizes == {100, 101, 200, 201, 1001, 10001}

\* the frame values a loaded capture cycles through (divisors of 360, so that
\* the harmonic mean stays a small fraction)
CaptureValues == <<12, 30, 10, 60, 15, 20>>

\* single frames that stand out of the cycle: two slow ones and two fast ones
\* when read as frame times (two high and two low ones when read as FPS)
CaptureSpikes == <<120, 90, 5, 6>>

\* a capture of n frames that cycles through CaptureValues with the given
\* stride, with the four spikes at frames 3, n-1, 2 and n
LoadedCapture(n, stride) ==
  [i \in 1..n |->
     IF i = 3 THEN CaptureSpikes[1]
     ELSE IF i = n - 1 THEN CaptureSpikes[2]
     ELSE IF i = 2 THEN CaptureSpikes[3]
     ELSE IF i = n THEN CaptureSpikes[4]
     ELSE CaptureValues[((i * stride) % Len(CaptureValues)) + 1]]

MetricNames ==
  { <<>>,
    <<"F", "P", "S">>,
    <<"f", "p", "s">>,
    <<"A", "v", "g", "F", "P", "S">>,
    <<"F", "r", "a", "m", "e", "T", "i", "m", "e">> }

\* the variables of the other components stay as they start
IdleStats ==
  /\ arr = <<>>
  /\ metricName = <<>>
  /\ stats = NoResult

IdleMetric ==
  /\ header = <<>>
  /\ rows = <<>>
  /\ resolved = NoResult
  /\ series = NoResult

IdlePacing ==
  /\ frametimes = <<>>
  /\ pacing = NoResult

IdleTests ==
  /\ sampleA = <<>>
  /\ sampleB = <<>>
  /\ lastChange = "none"
  /\ mw = NoResult
  /\ mwBefore = NoResult
  /\ ks = NoResult
  /\ ksBefore = NoResult

IdleSuite ==
  /\ testType = "ttest"
  /\ dataA = <<>>
  /\ dataB = <<>>
  /\ report = NoResult

IdleRow ==
  /\ rowIn = <<>>
  /\ rowOut = NoResult

IdleBoot ==
  /\ bootData = <<>>
  /\ bootFunc = "median"
  /\ bootIterations = 1
  /\ bootLevel = <<19, 20>>
  /\ bootStats = <<>>
  /\ bootPc = "idle"
  /\ bootCI = NoResult

IdleArgs ==
  /\ argA = <<>>
  /\ argB = <<>>
  /\ callee = "none"
  /\ arrays = <<>>

IdleUpload ==
  /\ files = <<>>
  /\ completed = <<>>
  /\ successCount = 0
  /\ errorCount = 0
  /\ allDatasets = <<>>
  /\ refreshCalls = <<>>

IdleDoubles ==
  /\ measured = <<>>
  /\ measuredAs = <<>>
  /\ aggregates = NoResult

IdleChart ==
  /\ chartDatasets = <<>>
  /\ currentChartType = "undefined"
  /\ mainChart = "null"
  /\ lastCall = [op |-> "none", chartType |-> "", index |-> 0, direction |-> ""]

NotStats == <<metricVars, pacingVars, testVars, suiteVars, rowVars, bootVars, argVars, uploadVars, doubleVars, chartVars>>

InitStats == IdleStats /\ IdleMetric /\ IdlePacing /\ IdleTests /\ IdleSuite /\ IdleRow /\ IdleBoot /\ IdleArgs /\ IdleUpload /\ IdleDoubles /\ IdleChart

\* one more numeric value of the selected metric joins the sample
PushValue ==
  /\ Len(arr) < MaxLen
  /\ \E v \in SampleValues : arr' = Append(arr, v)
  /\ stats' = NoResult
  /\ UNCHANGED <<metricName, NotStats>>

\* the sample of a whole capture, taken while no value has been pushed
LoadCapture ==
  /\ arr = <<>>
  /\ \E n \in CaptureSizes, stride \in {1, 5} : arr' = LoadedCapture(n, stride)
  /\ stats' = NoResult
  /\ UNCHANGED <<metricName, NotStats>>

SelectMetric ==
  /\ \E m \in MetricNames : metricName' = m
  /\ stats' = NoResult
  /\ UNCHANGED <<arr, NotStats>>

\* stats = calculateStatistics(values, metric)
Calculate ==
  /\ stats = NoResult
  /\ stats' = calculateStatistics(arr, metricName)
  /\ UNCHANGED <<arr, metricName, NotStats>>

NextStats == PushValue \/ LoadCapture \/ SelectMetric \/ Calculate

SpecStats == InitStats /\ [][NextStats]_vars

----------------------------------------------------------------------------
(* Reference definitions for the descriptive statistics: counting over the  *)
(* sample as given, without sorting it.                                     *)

CountBelow(a, v) == LET Below(x) == x < v IN Len(SelectSeq(a, Below))

CountAbove(a, v) == LET Above(x) == x > v IN Len(SelectSeq(a, Above))

CountEqual(a, v) == LET Equal(x) == x = v IN Len(SelectSeq(a, Equal))

\* sum over a finite set of integers of f[v]
RECURSIVE SetSum(_, _)
SetSum(S, f) ==
  IF S = {} THEN 0
  ELSE LET v == CHOOSE x \in S : TRUE IN f[v] + SetSum(S \ {v}, f)

\* the sum of the c worst values of a: the c smallest if lowestAreWorst, else
\* the c largest; of a value v as many copies count as fit after the worse ones
WorstSum(a, c, lowestAreWorst) ==
  LET worse(v) == IF lowestAreWorst THEN CountBelow(a, v) ELSE CountAbove(a, v)
      take == [v \in Range(a) |-> v * MaxInt(0, MinInt(CountEqual(a, v), c - worse(v)))]
  IN  SetSum(Range(a), take)

\* the k-th smallest value of a, k in 1..Len(a)
OrderStatistic(a, k) ==
  CHOOSE v \in Range(a) : CountBelow(a, v) < k /\ k <= CountBelow(a, v) + CountEqual(a, v)

\* ceil(num / den) for integers num >= 0, den > 0
CeilDiv(num, den) == (num + den - 1) \div den

\* the name contains "fps", whatever the case of its letters
NameHasFps(name) ==
  \E k \in 1..(Len(name) - 2) :
     /\ name[k] \in {"f", "F"}
     /\ name[k + 1] \in {"p", "P"}
     /\ name[k + 2] \in {"s", "S"}

\* FPS-like: named so, or unnamed with arithmetic mean > 30 and minimum > 20
FpsLike(a, name) ==
  \/ NameHasFps(name)
  \/ (name = <<>> /\ Len(a) > 0 /\ SumInt(a) > 30 * Len(a) /\ \A i \in 1..Len(a) : a[i] > 20)

Computed == stats # NoResult /\ Len(arr) > 0

\* C1: for a non-empty sample of n values, low1, low01 and low001 are the
\* arithmetic means of exactly max(1, ceil(n*p)) worst values, p = 0.01, 0.001,
\* 0.0001: the smallest values of an FPS-like metric, the largest of a
\* time-like one.
C1_LowIsMeanOfWorst ==
  Computed =>
    LET n   == Len(arr)
        fps == FpsLike(arr, metricName)
        c1   == MaxInt(1, CeilDiv(n, 100))
        c01  == MaxInt(1, CeilDiv(n, 1000))
        c001 == MaxInt(1, CeilDiv(n, 10000))
    IN  /\ stats.low1   = Norm(WorstSum(arr, c1, fps), c1)
        /\ stats.low01  = Norm(WorstSum(arr, c01, fps), c01)
        /\ stats.low001 = Norm(WorstSum(arr, c001, fps), c001)

\* C1 witness: a time-like capture long enough for all three counts to exceed
\* 1, where the three means differ from each other and from the maximum
C1_Witness ==
  /\ Computed
  /\ Len(arr) > 10000
  /\ ~FpsLike(arr, metricName)
  /\ stats.low001 # stats.max
  /\ stats.low01 # stats.low001
  /\ stats.low1 # stats.low01

C2_WitnessFps ==
  /\ Computed
  /\ Len(arr) = 101
  /\ FpsLike(arr, metricName)
  /\ stats.p1 = R(CaptureSpikes[4])
  /\ stats.p01 = R(CaptureSpikes[3])

\* C19: for a non-empty sample p1 <= p01 <= p001 when the metric is time-like
\* (99th, 99.9th, 99.99th percentile) and p1 >= p01 >= p001 when it is
\* FPS-like, and the three percentiles lie between min and max.
C19_PercentilesOrdered ==
  Computed =>
    /\ IF FpsLike(arr, metricName)
       THEN RLe(stats.p01, stats.p1) /\ RLe(stats.p001, stats.p01)
       ELSE RLe(stats.p1, stats.p01) /\ RLe(stats.p01, stats.p001)
    /\ \A p \in {stats.p1, stats.p01, stats.p001} :
          RLe(stats.min, p) /\ RLe(p, stats.max)
    /\ \A i \in 1..Len(arr) : RLe(stats.min, R(arr[i])) /\ RLe(R(arr[i]), stats.max)

\* C19 witness: a time-like capture whose three percentiles are three
\* different values, all above the minimum
C19_Witness ==
  /\ Computed
  /\ ~FpsLike(arr, metricName)
  /\ RLt(stats.min, stats.p1)
  /\ RLt(stats.p1, stats.p01)
  /\ RLt(stats.p01, stats.p001)

\* C19 second witness, FPS-like: p1 above p01
C19_WitnessFps ==
  /\ Computed
  /\ FpsLike(arr, metricName)
  /\ RLt(stats.p01, stats.p1)
  /\ RLt(stats.p1, stats.max)

\* n / sum(1/v): the sum taken value by value over the distinct values
HarmonicMean(a) ==
  LET vs == Range(a)
      l  == 360 * 217
      \* every sample value divides l or is 0
      num == [v \in vs |-> IF v = 0 THEN 0 ELSE CountEqual(a, v) * (l \div v)]
  IN  IF 0 \in vs THEN R(0) ELSE Norm(Len(a) * l, SetSum(vs, num))

ArithmeticMean(a) == Norm(SumInt(a), Len(a))

\* C3: avg is the harmonic mean n / sum(1/v) whenever metricName
\* case-insensitively equals or contains "fps", and the arithmetic mean for
\* every other metric name.
C3_HarmonicForFpsNames ==
  Computed =>
    stats.avg = IF NameHasFps(metricName) THEN HarmonicMean(arr) ELSE ArithmeticMean(arr)

\* C28 on samples of whole numbers, where no sum is rounded: min <= avg <=
\* low1 <= low01 <= low001 <= max when the metric is time-like, and min <=
\* low001 <= low01 <= low1 <= max when it is FPS-like.
C28_OrderedOnWholeNumbers ==
  Computed =>
     IF FpsLike(arr, metricName)
     THEN /\ RLe(stats.min, stats.low001)
          /\ RLe(stats.low001, stats.low01)
          /\ RLe(stats.low01, stats.low1)
          /\ RLe(stats.low1, stats.max)
     ELSE /\ RLe(stats.min, stats.avg)
          /\ RLe(stats.avg, stats.low1)
          /\ RLe(stats.low1, stats.low01)
          /\ RLe(stats.low01, stats.low001)
          /\ RLe(stats.low001, stats.max)

\* C28 on whole numbers, reached: a time-like capture with the six values all different
C28_Witness ==
  /\ Computed
  /\ ~FpsLike(arr, metricName)
  /\ RLt(stats.min, stats.avg)
  /\ RLt(stats.avg, stats.low1)
  /\ RLt(stats.low1, stats.low01)
  /\ RLt(stats.low01, stats.low001)
  /\ RLt(stats.low001, stats.max)

\* C28 on whole numbers, reached, FPS-like: the lows rise from low001 to low1
C28_WitnessFps ==
  /\ Computed
  /\ FpsLike(arr, metricName)
  /\ RLt(stats.min, stats.low001)
  /\ RLt(stats.low001, stats.low01)
  /\ RLt(stats.low01, stats.low1)
  /\ RLt(stats.low1, stats.max)

\* the sample is to be treated as FPS-like: unnamed, by its values alone
\* (mean above 30 and every value above 20); named, by its name alone
FpsByRule(a, name) ==
  IF name = <<>>
  THEN RGt(ArithmeticMean(a), R(30)) /\ \A i \in 1..Len(a) : a[i] > 20
  ELSE NameHasFps(name)

\* the 1 % percentile and the 1 % low of the result are those of the low end
\* (fps) or of the high end of the sample
TreatedAs(fps) ==
  LET n  == Len(arr)
      c1 == MaxInt(1, CeilDiv(n, 100))
  IN  /\ stats.p1 = R(OrderStatistic(arr, IF fps THEN CeilDiv(n, 100) ELSE CeilDiv(99 * n, 100)))
      /\ stats.low1 = Norm(WorstSum(arr, c1, fps), c1)

\* C25: with an empty metricName the sample is treated as FPS-like exactly
\* when avg > 30 and min > 20, both strict; with a non-empty name the values
\* play no part and it is FPS-like exactly when the name contains 'fps' in
\* any case.
C25_HeuristicOnlyWhenUnnamed ==
  Computed => TreatedAs(FpsByRule(arr, metricName))

\* C25 witness: an unnamed sample with the mean exactly 30 and every value
\* above 20, treated as time-like
C25_Witness ==
  /\ Computed
  /\ metricName = <<>>
  /\ stats.avg = R(30)
  /\ RGt(stats.min, R(20))
  /\ RLt(stats.min, stats.max)
  /\ stats.p1 = stats.max
  /\ stats.low1 = stats.max

\* C25 second witness: an unnamed sample with the minimum exactly 20 and the
\* mean above 30, treated as time-like
C25_WitnessMinimum ==
  /\ Computed
  /\ metricName = <<>>
  /\ RGt(stats.avg, R(30))
  /\ stats.min = R(20)
  /\ stats.p1 = stats.max

\* C25 third witness: an unnamed sample just inside both limits, FPS-like
C25_WitnessInside ==
  /\ Computed
  /\ metricName = <<>>
  /\ stats.min = R(21)
  /\ RLt(stats.min, stats.max)
  /\ stats.p1 = stats.min
  /\ stats.low1 = stats.min

\* C25 fourth witness: a named sample whose values pass the heuristic,
\* time-like by its name
C25_WitnessNamed ==
  /\ Computed
  /\ metricName # <<>>
  /\ ~NameHasFps(metricName)
  /\ RGt(stats.avg, R(30))
  /\ RGt(stats.min, R(20))
  /\ RLt(stats.min, stats.max)
  /\ stats.p1 = stats.max

----------------------------------------------------------------------------
(* getMetricValue (statsManager.js).  A row object is a sequence of          *)
(* <<key, cell>> pairs in the order of Object.keys; a cell is a finite      *)
(* number, a string or null, as parseCSV leaves it.                         *)

Num(x) == [type |-> "number", value |-> x]

\* a non-numeric cell
Text == [type |-> "string"]

\* null (a missing result)
Null == [type |-> "object"]

\* a property the row does not have
Undefined == [type |-> "undefined"]

\* row[key]
Get(row, key) ==
  IF \E i \in 1..Len(row) : row[i][1] = key
  THEN row[CHOOSE i \in 1..Len(row) : row[i][1] = key][2]
  ELSE Undefined

\* Object.keys(row).find(key => key.toLowerCase() === lower), or Undefined
findKeyLower(row, lower) ==
  LET hits == {i \in 1..Len(row) : toLowerCase(row[i][1]) = lower}
  IN  IF hits = {} THEN Undefined
      ELSE row[CHOOSE i \in hits : \A j \in hits : i <= j][1]

KeyFrameTime == <<"F", "r", "a", "m", "e", "T", "i", "m", "e">>

KeyFPS == <<"F", "P", "S">>

\* 'msbetweenpresents'
LowerMbp == <<"m", "s", "b", "e", "t", "w", "e", "e", "n", "p", "r", "e", "s", "e", "n", "t", "s">>

\* metric === 'FrameTime'
frameTimeOf(row) ==
  IF Get(row, KeyFrameTime).type = "number" THEN Get(row, KeyFrameTime)
  ELSE LET mbpKey == findKeyLower(row, LowerMbp)
       IN  IF mbpKey # Undefined /\ Get(row, mbpKey).type = "number"
           THEN Get(row, mbpKey)
           ELSE Null

\* the FPS branch with the MsBetweenPresents fallback left out
fpsOfNoFallback(row) ==
  IF Get(row, KeyFrameTime).type = "number" /\ RGt(Get(row, KeyFrameTime).value, R(0))
  THEN Num(RDiv(R(1000), Get(row, KeyFrameTime).value))
  ELSE Null

\* the FPS branch with the test for a positive FrameTime left out
fpsOfNoPositiveTest(row) ==
  IF Get(row, KeyFrameTime).type = "number"
  THEN Num(RDiv(R(1000), Get(row, KeyFrameTime).value))
  ELSE LET mbpKey == findKeyLower(row, LowerMbp)
       IN  IF mbpKey # Undefined /\ Get(row, mbpKey).type = "number"
              /\ RGt(Get(row, mbpKey).value, R(0))
           THEN Num(RDiv(R(1000), Get(row, mbpKey).value))
           ELSE Null

\* metric === 'FPS'
fpsOf(row) ==
  IF Get(row, KeyFrameTime).type = "number" /\ RGt(Get(row, KeyFrameTime).value, R(0))
  THEN Num(RDiv(R(1000), Get(row, KeyFrameTime).value))
  ELSE LET mbpKey == findKeyLower(row, LowerMbp)
       IN  IF mbpKey # Undefined /\ Get(row, mbpKey).type = "number"
              /\ RGt(Get(row, mbpKey).value, R(0))
           THEN Num(RDiv(R(1000), Get(row, mbpKey).value))
           ELSE Null

\* getMetricValue(row, metric)
getMetricValue(row, metric) ==
  IF metric = KeyFrameTime THEN frameTimeOf(row)
  ELSE IF metric = KeyFPS THEN fpsOf(row)
  ELSE IF Get(row, metric).type = "number" THEN Get(row, metric)
  ELSE LET matchingKey == findKeyLower(row, toLowerCase(metric))
       IN  IF matchingKey # Undefined /\ Get(row, matchingKey).type = "number"
           THEN Get(row, matchingKey)
           ELSE Null

\* rows.map(r => getMetricValue(r, metric))
mapMetric(rs, metric) == [i \in 1..Len(rs) |-> getMetricValue(rs[i], metric)]

\* .filter(v => typeof v === 'number')
IsNumber(c) == c.type = "number"

filterNumbers(cells) == SelectSeq(cells, IsNumber)

----------------------------------------------------------------------------
(* Inputs of getMetricValue *)

\* most columns of a dataset
MaxCols == 2

\* most rows of a dataset
MaxRows == 2

\* column names: FrameTime and two spellings of the PresentMon column
ColumnNames ==
  { KeyFrameTime,
    <<"M", "s", "B", "e", "t", "w", "e", "e", "n", "P", "r", "e", "s", "e", "n", "t", "s">>,
    <<"m", "s", "B", "e", "t", "w", "e", "e", "n", "P", "r", "e", "s", "e", "n", "t", "s">> }

\* the metrics asked for: FPS, FrameTime and a column by its lower-case name
Metrics == {KeyFPS, KeyFrameTime, LowerMbp}

\* frame duration of the positive cells of row i (ms): each row its own
FrameMs == 8

\* the cells a column of row i can hold: text, 0 or a positive frame time
CellsOfRow(i) == {Text, Num(R(0)), Num(R(FrameMs * i))}

\* the row object of row i of the dataset
RowObject(hdr, cells) == [c \in 1..Len(hdr) |-> <<hdr[c], cells[c]>>]

RowObjects == [i \in 1..Len(rows) |-> RowObject(header, rows[i])]

NotMetric == <<statsVars, pacingVars, testVars, suiteVars, rowVars, bootVars, argVars, uploadVars, doubleVars, chartVars>>

\* a column joins the header, while the dataset has no rows
AddColumn ==
  /\ rows = <<>>
  /\ Len(header) < MaxCols
  /\ \E k \in ColumnNames :
        /\ \A c \in 1..Len(header) : header[c] # k
        /\ header' = Append(header, k)
  /\ resolved' = NoResult
  /\ series' = NoResult
  /\ UNCHANGED <<rows, NotMetric>>

\* a parsed row joins the dataset
AddRow ==
  /\ Len(header) > 0
  /\ Len(rows) < MaxRows
  /\ \E cells \in [1..Len(header) -> CellsOfRow(Len(rows) + 1)] :
        rows' = Append(rows, cells)
  /\ resolved' = NoResult
  /\ series' = NoResult
  /\ UNCHANGED <<header, NotMetric>>

\* every metric is read from every row, and the numbers are kept
ResolveMetrics ==
  /\ resolved = NoResult
  /\ resolved' = [m \in Metrics |-> mapMetric(RowObjects, m)]
  /\ series' = [m \in Metrics |-> filterNumbers(resolved'[m])]
  /\ UNCHANGED <<header, rows, NotMetric>>

InitMetric == IdleStats /\ IdleMetric /\ IdlePacing /\ IdleTests /\ IdleSuite /\ IdleRow /\ IdleBoot /\ IdleArgs /\ IdleUpload /\ IdleDoubles /\ IdleChart

NextMetric == AddColumn \/ AddRow \/ ResolveMetrics

SpecMetric == InitMetric /\ [][NextMetric]_vars

----------------------------------------------------------------------------
(* Reference definitions for getMetricValue *)

\* the two letters are the same, or the same letter in different case
SameLetter(a, b) ==
  \/ a = b
  \/ <<a, b>> \in {<<"M", "m">>, <<"m", "M">>, <<"B", "b">>, <<"b", "B">>,
                  <<"P", "p">>, <<"p", "P">>}

\* the names are equal when case is ignored
SameNameIgnoringCase(a, b) ==
  Len(a) = Len(b) /\ \A i \in 1..Len(a) : SameLetter(a[i], b[i])

\* the cell of column FrameTime of row i, or Undefined
FrameTimeCell(i) ==
  IF \E c \in 1..Len(header) : header[c] = KeyFrameTime
  THEN rows[i][CHOOSE c \in 1..Len(header) : header[c] = KeyFrameTime]
  ELSE Undefined

\* the columns whose name case-insensitively equals 'msbetweenpresents'
MbpColumns == {c \in 1..Len(header) : SameNameIgnoringCase(header[c], LowerMbp)}

\* the cell of the (first) such column of row i, or Undefined
MbpCell(i) ==
  IF MbpColumns = {} THEN Undefined
  ELSE rows[i][CHOOSE c \in MbpColumns : \A d \in MbpColumns : c <= d]

PositiveNumber(c) == c.type = "number" /\ c.value[1] > 0 /\ c.value[2] >= 0

Resolved == resolved # NoResult

\* C4: getMetricValue(row, 'FPS') is 1000/row.FrameTime when row.FrameTime is a
\* number greater than 0; otherwise 1000/v for the value v of the column named
\* 'msbetweenpresents' (case ignored; the first such column) when v is a number
\* greater than 0; otherwise null.
C4_FpsFromFrameTime ==
  Resolved =>
    \A i \in 1..Len(rows) :
      resolved[KeyFPS][i] =
        IF PositiveNumber(FrameTimeCell(i))
        THEN Num(Norm(1000 * FrameTimeCell(i).value[2], FrameTimeCell(i).value[1]))
        ELSE IF PositiveNumber(MbpCell(i))
        THEN Num(Norm(1000 * MbpCell(i).value[2], MbpCell(i).value[1]))
        ELSE Null

\* C4 witness: a row whose FrameTime is 0 and whose FPS comes from the
\* PresentMon column
C4_Witness ==
  /\ Resolved
  /\ \E i \in 1..Len(rows) :
        /\ FrameTimeCell(i) = Num(R(0))
        /\ PositiveNumber(MbpCell(i))
        /\ resolved[KeyFPS][i] = Num(Norm(1000, FrameMs * i))

\* C5: whenever getMetricValue(row, 'FrameTime') is a positive number,
\* getMetricValue(row, 'FPS') is non-null and equals 1000 divided by it; so the
\* FPS and FrameTime series of a dataset of positive frame times have the same
\* length and the same frame order.
C5_FpsReciprocalOfFrameTime ==
  Resolved =>
    /\ \A i \in 1..Len(rows) :
          PositiveNumber(resolved[KeyFrameTime][i]) =>
            /\ resolved[KeyFPS][i] # Null
            /\ resolved[KeyFPS][i] = Num(RDiv(R(1000), resolved[KeyFrameTime][i].value))
    /\ (\A i \in 1..Len(rows) : PositiveNumber(resolved[KeyFrameTime][i])) =>
          /\ Len(series[KeyFPS]) = Len(rows)
          /\ Len(series[KeyFrameTime]) = Len(rows)
          /\ \A i \in 1..Len(rows) :
                /\ series[KeyFrameTime][i] = Num(R(FrameMs * i))
                /\ series[KeyFPS][i] = Num(Norm(1000, FrameMs * i))

\* C5 witness: a dataset of two rows without a FrameTime column, whose positive
\* frame times come from the PresentMon column
C5_Witness ==
  /\ Resolved
  /\ Len(rows) >= 2
  /\ \A c \in 1..Len(header) : header[c] # KeyFrameTime
  /\ \A i \in 1..Len(rows) : PositiveNumber(resolved[KeyFrameTime][i])
  /\ Len(series[KeyFPS]) = Len(rows)

----------------------------------------------------------------------------
(* analyzeFramePacing (statsManager.js) *)

\* the comparator (a, b) => a - b returns a negative number
ComparesBefore(a, b) == RLt(RSub(a, b), R(0))

\* [...s].sort((a, b) => a - b) on numbers: a stable sort, in which two
\* elements whose difference is 0 or NaN keep their order
RECURSIVE SortNumbers(_)
SortNumbers(s) ==
  IF Len(s) <= 1 THEN s
  ELSE LET pivot == s[(Len(s) + 1) \div 2]
           Before(x) == ComparesBefore(x, pivot)
           After(x)  == ComparesBefore(pivot, x)
           Beside(x) == ~ComparesBefore(x, pivot) /\ ~ComparesBefore(pivot, x)
       IN  SortNumbers(SelectSeq(s, Before)) \o SelectSeq(s, Beside)
             \o SortNumbers(SelectSeq(s, After))

\* calculatePercentile(sortedArr, percentile): linear interpolation between the
\* two ranks around (percentile / 100) * (length - 1)
calculatePercentile(sortedArr, percentile) ==
  IF Len(sortedArr) = 0 THEN NaN
  ELSE LET idx   == RMul(RDiv(percentile, R(100)), R(Len(sortedArr) - 1))
           lower == FloorInt(idx)
           upper == MinInt(Len(sortedArr) - 1, CeilInt(idx))
           w     == RSub(idx, R(lower))
       IN  IF lower = upper THEN sortedArr[lower + 1]
           ELSE RAdd(RMul(sortedArr[lower + 1], RSub(R(1), w)),
                     RMul(sortedArr[upper + 1], w))

\* s.map(f) for the maps of analyzeFramePacing
AsNumbers(s) == [i \in 1..Len(s) |-> R(s[i])]

\* frametimes.map(t => Math.abs(t - m) / m)
relDeviationsOf(ts, m) == [i \in 1..Len(ts) |-> RDiv(RAbs(RSub(ts[i], m)), m)]

\* s.map(t => Math.abs(t - m))
absDeviationsOf(ts, m) == [i \in 1..Len(ts) |-> RAbs(RSub(ts[i], m))]

\* diffs: Math.abs(frametimes[i] - frametimes[i - 1]) for i = 1 .. length - 1
diffsOf(ts) == [i \in 1..(Len(ts) - 1) |-> RAbs(RSub(ts[i + 1], ts[i]))]

\* s.reduce((a, b) => a + b, 0) on numbers
RECURSIVE SumNumbers(_, _)
SumNumbers(s, k) == IF k = 0 THEN R(0) ELSE RAdd(SumNumbers(s, k - 1), s[k])

\* alpha of the consistency score
alpha == 3

\* K of the bad transitions, 2.5, as the fraction KNum / KDen
KNum == 5

KDen == 2

\* the consistency score without the rounding to two decimals
consistencyUnrounded(medianRelDev) ==
  RMax(R(0), RMin(R(100), RMul(R(100), RSub(R(1), RMin(R(1), RMul(R(alpha), medianRelDev))))))

\* the consistency field: 100 * (1 - min(1, alpha * medianRelDev)), clamped to
\* [0, 100] and then Math.round(consistency * 100) / 100
consistencyOf(medianRelDev) ==
  LET consistency ==
        RMax(R(0), RMin(R(100),
             RMul(R(100), RSub(R(1), RMin(R(1), RMul(R(alpha), medianRelDev))))))
  IN  RDiv(RRound(RMul(consistency, R(100))), R(100))

\* the flagged transitions with index i in place of i + 1
RECURSIVE badTransitionsFromZero(_, _, _)
badTransitionsFromZero(diffs, medianDiff, k) ==
  IF k = 0 THEN <<>>
  ELSE badTransitionsFromZero(diffs, medianDiff, k - 1) \o
         (IF RGt(diffs[k], RMul(<<KNum, KDen>>, medianDiff))
          THEN << [index |-> k - 1, value |-> diffs[k], ratio |-> RDiv(diffs[k], medianDiff)] >>
          ELSE <<>>)

\* diffs.forEach((diff, i) => { if (diff > K * medianDiff) badTransitions.push(
\*   {index: i + 1, value: diff, ratio: diff / medianDiff}) }), over the first k
\* diffs; diffs[k] here is diffs[k - 1] of the code
RECURSIVE badTransitionsOf(_, _, _)
badTransitionsOf(diffs, medianDiff, k) ==
  IF k = 0 THEN <<>>
  ELSE badTransitionsOf(diffs, medianDiff, k - 1) \o
         (IF RGt(diffs[k], RMul(<<KNum, KDen>>, medianDiff))
          THEN << [index |-> k, value |-> diffs[k], ratio |-> RDiv(diffs[k], medianDiff)] >>
          ELSE <<>>)

\* analyzeFramePacing(frametimes).  stdevTransition is a square root and is not
\* part of the record.
analyzeFramePacing(fts) ==
  IF Len(fts) < 3
  THEN [consistency |-> R(0), medianFrametime |-> R(0), madFrametime |-> R(0),
        medianTransition |-> R(0), madTransition |-> R(0), avgTransition |-> R(0),
        badTransitions |-> <<>>]
  ELSE LET ts           == AsNumbers(fts)
           medianFT     == calculatePercentile(SortNumbers(ts), R(50))
           medianRelDev == calculatePercentile(SortNumbers(relDeviationsOf(ts, medianFT)), R(50))
           madFT        == calculatePercentile(SortNumbers(absDeviationsOf(ts, medianFT)), R(50))
           diffs        == diffsOf(ts)
           medianDiff   == calculatePercentile(SortNumbers(diffs), R(50))
           madDiff      == calculatePercentile(SortNumbers(absDeviationsOf(diffs, medianDiff)), R(50))
           avgDiff      == RDiv(SumNumbers(diffs, Len(diffs)), R(Len(diffs)))
       IN  [consistency      |-> consistencyOf(medianRelDev),
            medianFrametime  |-> medianFT,
            madFrametime     |-> madFT,
            medianTransition |-> medianDiff,
            madTransition    |-> madDiff,
            avgTransition    |-> avgDiff,
            badTransitions   |-> badTransitionsOf(diffs, medianDiff, Len(diffs))]

----------------------------------------------------------------------------
(* Inputs of analyzeFramePacing *)

\* longest frametime array
MaxFrames == 5

\* frame times in ms; 0 is what parseCSV makes of an empty cell
FrameValues == {0, 6, 7, 8, 16}

NotPacing == <<statsVars, metricVars, testVars, suiteVars, rowVars, bootVars, argVars, uploadVars, doubleVars, chartVars>>

\* one more frame
PushFrame ==
  /\ Len(frametimes) < MaxFrames
  /\ \E t \in FrameValues : frametimes' = Append(frametimes, t)
  /\ pacing' = NoResult
  /\ UNCHANGED NotPacing

\* pacing = analyzeFramePacing(frametimes)
AnalyzePacing ==
  /\ pacing = NoResult
  /\ pacing' = analyzeFramePacing(frametimes)
  /\ UNCHANGED <<frametimes, NotPacing>>

InitPacing == IdleStats /\ IdleMetric /\ IdlePacing /\ IdleTests /\ IdleSuite /\ IdleRow /\ IdleBoot /\ IdleArgs /\ IdleUpload /\ IdleDoubles /\ IdleChart

NextPacing == PushFrame \/ AnalyzePacing

SpecPacing == InitPacing /\ [][NextPacing]_vars

----------------------------------------------------------------------------
(* Reference definitions for the frame pacing: the median by counting, on    *)
(* finite numbers.                                                          *)

NumBelow(s, v) == LET Below(x) == RLt(x, v) IN Len(SelectSeq(s, Below))

NumAtMost(s, v) == LET AtMost(x) == RLe(x, v) IN Len(SelectSeq(s, AtMost))

\* the k-th smallest of the finite numbers s, k in 1..Len(s)
KthSmallest(s, k) ==
  LET i == CHOOSE j \in 1..Len(s) : NumBelow(s, s[j]) < k /\ k <= NumAtMost(s, s[j])
  IN  s[i]

\* the median of the finite numbers s: the middle one, or the mean of the two
\* middle ones
Median(s) ==
  LET t == SubSeq(s, 1, Len(s))
  IN  IF Len(t) % 2 = 1 THEN KthSmallest(t, (Len(t) + 1) \div 2)
      ELSE RDiv(RAdd(KthSmallest(t, Len(t) \div 2), KthSmallest(t, Len(t) \div 2 + 1)),
                R(2))

Analyzed == pacing # NoResult /\ Len(frametimes) >= 3

\* the frametimes as numbers
Frames == [i \in 1..Len(frametimes) |-> R(frametimes[i])]

MedianFrametime == Median(Frames)

\* the median over the frames of |t - medianFT| / medianFT, for medianFT # 0
MedianRelDev ==
  LET m == MedianFrametime
  IN  Median([i \in 1..Len(frametimes) |-> RDiv(RAbs(RSub(R(frametimes[i]), m)), m)])

\* clamp(100 * (1 - min(1, 3 * medianRelDev)), 0, 100) for a finite medianRelDev
ClampedScore ==
  LET x == RSub(R(1), RMul(R(3), MedianRelDev))
      y == IF RLt(x, R(0)) THEN R(0) ELSE x
      z == RMul(R(100), y)
  IN  IF RLt(R(100), z) THEN R(100) ELSE z

\* C6: a constant frametime array of length >= 3 has consistency 100 and no bad
\* transitions.
C6_ConstantIsPerfect ==
  (Analyzed /\ \A i \in 1..Len(frametimes) : frametimes[i] = frametimes[1]) =>
     /\ pacing.consistency = R(100)
     /\ pacing.badTransitions = <<>>

Transitions ==
  [i \in 1..(Len(frametimes) - 1) |-> AbsInt(frametimes[i + 1] - frametimes[i])]

MedianTransition == Median([i \in 1..Len(Transitions) |-> R(Transitions[i])])

\* |t[i] - t[i-1]| > 2.5 * medianDiff
Flagged(i) == RGt(R(Transitions[i]), RMul(<<5, 2>>, MedianTransition))

\* C8: the transition between frames i-1 and i is flagged exactly when
\* |t[i] - t[i-1]| > 2.5 * medianDiff; it is recorded as {index: i, value: the
\* difference, ratio: difference / medianDiff}; badTransitions holds exactly the
\* flagged transitions, in increasing index order, every index in 1..n-1.
C8_BadTransitions ==
  Analyzed =>
     LET bad == pacing.badTransitions
     IN  /\ \A k \in 1..Len(bad) :
               /\ bad[k].index \in 1..(Len(frametimes) - 1)
               /\ Flagged(bad[k].index)
               /\ bad[k].value = R(Transitions[bad[k].index])
               /\ bad[k].ratio = RDiv(R(Transitions[bad[k].index]), MedianTransition)
         /\ \A k \in 1..(Len(bad) - 1) : bad[k].index < bad[k + 1].index
         /\ \A i \in 1..(Len(frametimes) - 1) :
               Flagged(i) => \E k \in 1..Len(bad) : bad[k].index = i

\* C8 witness: a flagged transition that is not the first transition, with a
\* finite ratio, next to a transition that is not flagged
C8_Witness ==
  /\ Analyzed
  /\ Len(pacing.badTransitions) = 1
  /\ pacing.badTransitions[1].index > 1
  /\ IsFinite(pacing.badTransitions[1].ratio)
  /\ \E i \in 1..(Len(frametimes) - 1) : Transitions[i] > 0 /\ ~Flagged(i)

\* C8 boundary case: a transition of exactly 2.5 times the median is not flagged
C8_WitnessBoundary ==
  /\ Analyzed
  /\ pacing.badTransitions = <<>>
  /\ \E i \in 1..(Len(frametimes) - 1) :
        /\ RMul(<<5, 2>>, MedianTransition) = R(Transitions[i])
        /\ Transitions[i] > 0

\* C8 second witness: a median difference of 0, where the ratio is Infinity
C8_WitnessInfiniteRatio ==
  /\ Analyzed
  /\ Len(pacing.badTransitions) >= 1
  /\ pacing.badTransitions[1].ratio = PosInf

----------------------------------------------------------------------------
(* runMannWhitneyTest (chartManager.js).  z = zNumerator / sqrt(variance)    *)
(* and r = z / sqrt(N) need a square root: a value x of this kind is held   *)
(* as [sign |-> the sign of x, square |-> x * x], which determines x.       *)
(* The p-value is a function of |z| (the tail formula for |z| > 6, the      *)
(* normal cdf otherwise): it is held as the branch taken and z * z.  The    *)
(* inter-quartile ranges of the result are left out.                        *)

\* numerator / Math.sqrt(radicand), for a radicand >= 0 or NaN; NaN has sign 0
overRoot(numerator, radicand) ==
  LET square == RDiv(RMul(numerator, numerator), radicand)
  IN  [sign   |-> IF IsNaN(square) THEN 0 ELSE SignInt(numerator[1]),
       square |-> square]

\* the merged array: the values of a tagged 'a', then the values of b tagged 'b'
combinedOf(a, b) ==
  [i \in 1..Len(a) |-> [value |-> a[i], group |-> "a"]]
    \o [i \in 1..Len(b) |-> [value |-> b[i], group |-> "b"]]

\* combined.sort((x, y) => x.value - y.value): a stable sort
RECURSIVE sortByValue(_)
sortByValue(c) ==
  IF Len(c) <= 1 THEN c
  ELSE LET pivot == c[(Len(c) + 1) \div 2].value
           Less(x) == x.value < pivot
           Same(x) == x.value = pivot
           More(x) == x.value > pivot
       IN  sortByValue(SelectSeq(c, Less)) \o SelectSeq(c, Same)
             \o sortByValue(SelectSeq(c, More))

\* the index after the tie group of `value` that holds index i (1-based)
RECURSIVE tieEnd(_, _, _)
tieEnd(c, i, value) ==
  IF i <= Len(c) /\ c[i].value = value THEN tieEnd(c, i + 1, value) ELSE i

\* the rank loop with every item ranked by its place in the sorted array, ties
\* not averaged and not counted
RECURSIVE assignRanksOrdinal(_, _, _)
assignRanksOrdinal(c, i, currentRank) ==
  IF i > Len(c) THEN [ranks |-> <<>>, tieCorrection |-> R(0)]
  ELSE LET rest == assignRanksOrdinal(c, i + 1, currentRank + 1)
       IN  [ranks |-> <<R(currentRank)>> \o rest.ranks, tieCorrection |-> R(0)]

\* the rank loop from index i on: the ranks of the items and the sum of
\* (t^3 - t) / 12 over the tie groups of more than one item
RECURSIVE assignRanks(_, _, _)
assignRanks(c, i, currentRank) ==
  IF i > Len(c) THEN [ranks |-> <<>>, tieCorrection |-> R(0)]
  ELSE LET tieCount == tieEnd(c, i, c[i].value) - i
           avgRank  == RAdd(R(currentRank), Norm(tieCount - 1, 2))
           rest     == assignRanks(c, i + tieCount, currentRank + tieCount)
           term     == IF tieCount > 1
                       THEN Norm(tieCount * tieCount * tieCount - tieCount, 12)
                       ELSE R(0)
       IN  [ranks         |-> [j \in 1..tieCount |-> avgRank] \o rest.ranks,
            tieCorrection |-> RAdd(term, rest.tieCorrection)]

\* the sum of the ranks of the items of one group
RECURSIVE rankSumOf(_, _, _, _)
rankSumOf(c, ranks, group, i) ==
  IF i > Len(c) THEN R(0)
  ELSE RAdd(IF c[i].group = group THEN ranks[i] ELSE R(0),
            rankSumOf(c, ranks, group, i + 1))

\* the larger of the two U statistics
mwULarger(U1, U2) == RMax(U1, U2)

\* the U of the first sample alone
mwUFirst(U1, U2) == U1

\* U = Math.min(U1, U2)
mwU(U1, U2) == RMin(U1, U2)

\* rankSumA / n1 > rankSumB / n2 ? 'A' : 'B'
higherGroupOf(rankSumA, n1, rankSumB, n2) ==
  IF RGt(RDiv(rankSumA, R(n1)), RDiv(rankSumB, R(n2))) THEN "A" ELSE "B"

\* the p-value as a function of z
mwPValue(z) == [tail |-> RGt(z.square, R(36)), zSquare |-> z.square]

\* runMannWhitneyTest up to U1 and U2: the sorted merged array, the ranks of
\* its items, the tie correction, the rank sums and the two U statistics
rankSums(a, b) ==
  LET n1         == Len(a)
      n2         == Len(b)
      combined   == sortByValue(combinedOf(a, b))
      ranked     == assignRanks(combined, 1, 1)
      rankSumA   == rankSumOf(combined, ranked.ranks, "a", 1)
      rankSumB   == rankSumOf(combined, ranked.ranks, "b", 1)
      U1         == RSub(rankSumA, Norm(n1 * (n1 + 1), 2))
  IN  [combined      |-> combined,
       ranks         |-> ranked.ranks,
       tieCorrection |-> ranked.tieCorrection,
       rankSumA      |-> rankSumA,
       rankSumB      |-> rankSumB,
       U1            |-> U1,
       U2            |-> RSub(R(n1 * n2), U1)]

runMannWhitneyTest(a, b) ==
  LET n1 == Len(a)
      n2 == Len(b)
  IN  IF n1 < 1 \/ n2 < 1 THEN Null
      ELSE
      LET sums       == rankSums(a, b)
          rankSumA   == sums.rankSumA
          rankSumB   == sums.rankSumB
          U1         == sums.U1
          U2         == sums.U2
          U          == mwU(U1, U2)
          meanU      == Norm(n1 * n2, 2)
          N          == n1 + n2
          baseVariance     == Norm(n1 * n2 * (N + 1), 12)
          adjustedVariance ==
            RSub(baseVariance, RMul(sums.tieCorrection, Norm(n1 * n2, N * (N - 1))))
          continuityCorrection == Norm(SignInt(RSub(U, meanU)[1]), 2)
          z          == overRoot(RSub(RSub(U, meanU), continuityCorrection), adjustedVariance)
      IN  [U           |-> U,
           z           |-> z,
           pValue      |-> mwPValue(z),
           effectSize  |-> [sign |-> z.sign, square |-> RDiv(z.square, R(N))],
           medianA     |-> calculatePercentile(AsNumbers(SortAsc(a)), R(50)),
           medianB     |-> calculatePercentile(AsNumbers(SortAsc(b)), R(50)),
           higherGroup |-> higherGroupOf(rankSumA, n1, rankSumB, n2),
           clEffect    |-> RMul(RDiv(U1, R(n1 * n2)), R(100)),
           n1          |-> n1,
           n2          |-> n2]

----------------------------------------------------------------------------
(* runKolmogorovSmirnovTest (chartManager.js).  z = D * sqrt(n1 n2 / (n1 +  *)
(* n2)) is held as [D |-> D, cSquare |-> n1 n2 / (n1 + n2)]; the p-value is *)
(* a function of z alone (the asymptotic series for z < 1.18, 2 exp(-2 z z) *)
(* otherwise, not below 1e-15) and is held as the z it is computed from.    *)
(* The inter-quartile ranges and the skewness of the result are left out;   *)
(* samplingNote is whether the note about the sampling was written.         *)

\* samples of more than this many values are sub-sampled
samplingThreshold == 10000

sampleSize == 5000

\* the systematic sample: sampleSize values, every step-th one from the first on
systematicSample(a) ==
  LET step == Len(a) \div sampleSize
  IN  SubSeq([i \in 1..sampleSize |-> a[(i - 1) * step + 1]], 1, sampleSize)

subsetOf(a) == IF Len(a) > samplingThreshold THEN systematicSample(a) ELSE a

\* the binary search of createECDF: left and right are 0-based positions
RECURSIVE ecdfSearch(_, _, _, _)
ecdfSearch(sortedData, x, left, right) ==
  IF left > right THEN left
  ELSE LET mid == (left + right) \div 2
       IN  IF sortedData[mid + 1] <= x
           THEN ecdfSearch(sortedData, x, mid + 1, right)
           ELSE ecdfSearch(sortedData, x, left, mid - 1)

\* createECDF(sortedData)(x)
createECDF(sortedData, x) ==
  LET n == Len(sortedData)
  IN  IF x < sortedData[1] THEN R(0)
      ELSE IF x >= sortedData[n] THEN R(1)
      ELSE Norm(ecdfSearch(sortedData, x, 0, n - 1), n)

\* [...uniqueValues].sort((a, b) => a - b)
RECURSIVE sortedValuesOf(_)
sortedValuesOf(S) ==
  IF S = {} THEN <<>>
  ELSE LET least == CHOOSE x \in S : \A y \in S : x <= y
       IN  <<least>> \o sortedValuesOf(S \ {least})

\* the loop given up after the first of the combined values
maxDiffAtFirst(values, sortedA, sortedB, i, best) ==
  IF i > Len(values) THEN best
  ELSE [maxDiff      |-> RAbs(RSub(createECDF(sortedA, values[i]),
                                   createECDF(sortedB, values[i]))),
        maxDiffValue |-> values[i]]

\* the loop over combinedValues from index i on
RECURSIVE maxDiffFrom(_, _, _, _, _)
maxDiffFrom(values, sortedA, sortedB, i, best) ==
  IF i > Len(values) THEN best
  ELSE LET diff == RAbs(RSub(createECDF(sortedA, values[i]), createECDF(sortedB, values[i])))
       IN  maxDiffFrom(values, sortedA, sortedB, i + 1,
                       IF RGt(diff, best.maxDiff)
                       THEN [maxDiff |-> diff, maxDiffValue |-> values[i]]
                       ELSE best)

\* the p-value as a function of z
ksPValue(z) == [z |-> z]

runKolmogorovSmirnovTest(a, b) ==
  LET n1 == Len(a)
      n2 == Len(b)
  IN  IF n1 < 1 \/ n2 < 1 THEN Null
      ELSE
      LET sortedA == SortAsc(subsetOf(a))
          sortedB == SortAsc(subsetOf(b))
          combinedValues == sortedValuesOf(Range(sortedA) \cup Range(sortedB))
          found == maxDiffFrom(combinedValues, sortedA, sortedB, 1,
                               [maxDiff |-> R(0), maxDiffValue |-> 0])
          D == found.maxDiff
          z == [D |-> D, cSquare |-> Norm(n1 * n2, n1 + n2)]
          samplingApplied == n1 > samplingThreshold \/ n2 > samplingThreshold
      IN  [D            |-> D,
           pValue       |-> ksPValue(z),
           effectSize   |-> D,
           medianA      |-> calculatePercentile(AsNumbers(sortedA), R(50)),
           medianB      |-> calculatePercentile(AsNumbers(sortedB), R(50)),
           maxDiffValue |-> found.maxDiffValue,
           samplingNote |-> samplingApplied,
           n1           |-> IF samplingApplied THEN Len(sortedA) ELSE n1,
           n2           |-> IF samplingApplied THEN Len(sortedB) ELSE n2]

----------------------------------------------------------------------------
(* Inputs of the hypothesis tests: two samples, run through a test, changed *)
(* (exchanged, or the values of one sample rearranged) and run again.       *)

\* most values of a sample entered value by value
MaxSample == 3

TestValues == {1, 2, 3}

\* the length of a capture that is sub-sampled
LargeSize == 10001

\* a capture alternating between two frame times
LargeCapture == [i \in 1..LargeSize |-> IF i % 2 = 1 THEN 1 ELSE 2]

NotTests == <<statsVars, metricVars, pacingVars, suiteVars, rowVars, bootVars, argVars, uploadVars, doubleVars, chartVars>>

FreshSamples == /\ lastChange' = "none"
                /\ mw' = NoResult
                /\ mwBefore' = NoResult
                /\ ks' = NoResult
                /\ ksBefore' = NoResult

\* a value joins sample a
PushA ==
  /\ Len(sampleA) < MaxSample
  /\ \E v \in TestValues : sampleA' = Append(sampleA, v)
  /\ FreshSamples
  /\ UNCHANGED <<sampleB, NotTests>>

\* a value joins sample b
PushB ==
  /\ Len(sampleB) < MaxSample
  /\ \E v \in TestValues : sampleB' = Append(sampleB, v)
  /\ FreshSamples
  /\ UNCHANGED <<sampleA, NotTests>>

\* a large capture is taken as sample a
LoadLargeA ==
  /\ sampleA = <<>>
  /\ sampleA' = LargeCapture
  /\ FreshSamples
  /\ UNCHANGED <<sampleB, NotTests>>

\* s with the values at positions i and i + 1 exchanged
transposed(s, i) ==
  SubSeq(s, 1, i - 1) \o <<s[i + 1], s[i]>> \o SubSeq(s, i + 2, Len(s))

Tested == mw # NoResult \/ ks # NoResult

\* the results of the samples move to the results before the change
Changed(how) ==
  /\ lastChange' = how
  /\ mwBefore' = mw
  /\ ksBefore' = ks
  /\ mw' = NoResult
  /\ ks' = NoResult

\* the two samples are exchanged
ExchangeSamples ==
  /\ Tested
  /\ sampleA' = sampleB
  /\ sampleB' = sampleA
  /\ Changed("exchanged")
  /\ UNCHANGED NotTests

\* two neighbouring values of sample a are exchanged
PermuteA ==
  /\ Tested
  /\ \E i \in 1..(MaxSample - 1) :
        /\ i < Len(sampleA)
        /\ sampleA[i] # sampleA[i + 1]
        /\ sampleA' = transposed(sampleA, i)
  /\ Changed("permuted")
  /\ UNCHANGED <<sampleB, NotTests>>

\* two neighbouring values of sample b are exchanged
PermuteB ==
  /\ Tested
  /\ \E i \in 1..(MaxSample - 1) :
        /\ i < Len(sampleB)
        /\ sampleB[i] # sampleB[i + 1]
        /\ sampleB' = transposed(sampleB, i)
  /\ Changed("permuted")
  /\ UNCHANGED <<sampleA, NotTests>>

\* mw = runMannWhitneyTest(sampleA, sampleB)
RunMannWhitney ==
  /\ mw = NoResult
  /\ mw' = runMannWhitneyTest(sampleA, sampleB)
  /\ UNCHANGED <<sampleA, sampleB, lastChange, mwBefore, ks, ksBefore, NotTests>>

\* ks = runKolmogorovSmirnovTest(sampleA, sampleB)
RunKolmogorovSmirnov ==
  /\ ks = NoResult
  /\ ks' = runKolmogorovSmirnovTest(sampleA, sampleB)
  /\ UNCHANGED <<sampleA, sampleB, lastChange, mw, mwBefore, ksBefore, NotTests>>

InitTests == IdleStats /\ IdleMetric /\ IdlePacing /\ IdleTests /\ IdleSuite /\ IdleRow /\ IdleBoot /\ IdleArgs /\ IdleUpload /\ IdleDoubles /\ IdleChart

NextMW == PushA \/ PushB \/ ExchangeSamples \/ PermuteA \/ PermuteB \/ RunMannWhitney

SpecMW == InitTests /\ [][NextMW]_vars

NextKS == PushA \/ PushB \/ LoadLargeA \/ PermuteA \/ PermuteB \/ RunKolmogorovSmirnov

SpecKS == InitTests /\ [][NextKS]_vars

----------------------------------------------------------------------------
(* Reference definitions for the hypothesis tests *)

\* the Mann-Whitney test has run on non-empty samples before and after an
\* exchange of the two samples
ExchangedAndRun ==
  /\ lastChange = "exchanged"
  /\ mwBefore \notin {NoResult, Null}
  /\ mw \notin {NoResult, Null}

\* the mid-rank of value v among the values of both samples
PooledRank(v) ==
  LET pool == sampleA \o sampleB
  IN  RAdd(R(CountBelow(pool, v)), Norm(CountEqual(pool, v) + 1, 2))

RECURSIVE RankTotal(_, _)
RankTotal(s, i) == IF i > Len(s) THEN R(0) ELSE RAdd(PooledRank(s[i]), RankTotal(s, i + 1))

\* the mean of the mid-ranks of the values of sample s
MeanRank(s) == RDiv(RankTotal(s, 1), R(Len(s)))

\* C9 as claimed: exchanging the samples flips the sign of effectSize, swaps
\* higherGroup between 'A' and 'B' and leaves U unchanged.
C9_ExchangeFlipsEffectSize ==
  ExchangedAndRun =>
     /\ mw.effectSize.sign = -mwBefore.effectSize.sign
     /\ mw.effectSize.square = mwBefore.effectSize.square
     /\ mw.higherGroup # mwBefore.higherGroup
     /\ mw.U = mwBefore.U

\* C9 amended: exchanging the samples leaves U and effectSize unchanged, and
\* effectSize is never positive; higherGroup swaps between 'A' and 'B' when
\* the mean ranks of the two samples differ and is 'B' for both orders when
\* they are equal.
C9_ExchangeKeepsEffectSize ==
  ExchangedAndRun =>
     /\ mw.U = mwBefore.U
     /\ mw.effectSize = mwBefore.effectSize
     /\ mw.effectSize.sign \in {-1, 0}
     /\ IF MeanRank(sampleA) = MeanRank(sampleB)
        THEN mw.higherGroup = "B" /\ mwBefore.higherGroup = "B"
        ELSE /\ mw.higherGroup = (IF RGt(MeanRank(sampleA), MeanRank(sampleB)) THEN "A" ELSE "B")
             /\ mw.higherGroup # mwBefore.higherGroup

\* C9 witness: samples of different mean rank, exchanged: the effect size is
\* negative before and after, and higherGroup went from 'B' to 'A'
C9_Witness ==
  /\ ExchangedAndRun
  /\ mw.effectSize.sign = -1
  /\ mwBefore.effectSize.sign = -1
  /\ mwBefore.higherGroup = "B"
  /\ mw.higherGroup = "A"

\* C9 second witness: different samples of equal mean rank, exchanged
C9_WitnessEqualRanks ==
  /\ ExchangedAndRun
  /\ Range(sampleA) # Range(sampleB)
  /\ mw.higherGroup = "B"
  /\ mwBefore.higherGroup = "B"

\* the values of one sample were rearranged between two runs on non-empty samples
PermutedAndRun(before, after) ==
  /\ lastChange = "permuted"
  /\ before \notin {NoResult, Null}
  /\ after \notin {NoResult, Null}

\* C10: for every permutation of the values inside sample a and inside sample
\* b, runMannWhitneyTest and runKolmogorovSmirnovTest return the same
\* statistic (U, D), p-value and effect size as before, sub-sampled samples
\* included.
C10_OrderIndependent ==
  /\ PermutedAndRun(mwBefore, mw) =>
        /\ mw.U = mwBefore.U
        /\ mw.pValue = mwBefore.pValue
        /\ mw.effectSize = mwBefore.effectSize
  /\ PermutedAndRun(ksBefore, ks) =>
        /\ ks.D = ksBefore.D
        /\ ks.pValue = ksBefore.pValue
        /\ ks.effectSize = ksBefore.effectSize

\* the part of C10 that holds: samples that are not sub-sampled
C10_OrderIndependentUnsampled ==
  /\ PermutedAndRun(mwBefore, mw) => mw = mwBefore
  /\ (PermutedAndRun(ksBefore, ks) /\ Len(sampleA) <= samplingThreshold
        /\ Len(sampleB) <= samplingThreshold) => ks = ksBefore

\* the K-S test has run on two non-empty samples
KsRun == ks \notin {NoResult, Null}

\* every value of s is strictly smaller than every value of t
AllBelow(s, t) == \A i \in 1..Len(s) : \A j \in 1..Len(t) : s[i] < t[j]

\* C11: for all non-empty samples 0 <= D <= 1, and D = 1 whenever every value
\* of one sample is strictly smaller than every value of the other.
C11_DWithinUnitInterval ==
  KsRun =>
     /\ RLe(R(0), ks.D)
     /\ RLe(ks.D, R(1))
     /\ (AllBelow(sampleA, sampleB) \/ AllBelow(sampleB, sampleA)) => ks.D = R(1)

\* C11 witness: two samples of several values, every value of b below every
\* value of a, with D = 1
C11_Witness ==
  /\ KsRun
  /\ Len(sampleA) >= 2
  /\ Len(sampleB) >= 2
  /\ sampleA[1] # sampleA[2]
  /\ AllBelow(sampleB, sampleA)
  /\ ks.D = R(1)

\* C11 second witness: overlapping samples, D strictly between 0 and 1
C11_WitnessOverlap ==
  /\ KsRun
  /\ RLt(R(0), ks.D)
  /\ RLt(ks.D, R(1))

\* C11 third witness: a sub-sampled capture below the other sample
C11_WitnessSampled ==
  /\ KsRun
  /\ Len(sampleA) > samplingThreshold
  /\ AllBelow(sampleA, sampleB)
  /\ ks.D = R(1)

----------------------------------------------------------------------------
(* The paired t-test, the variance test and the frame-pacing test of        *)
(* chartManager.js, and runStatisticalTest, which chartManager.js declares  *)
(* after testManager.js and so is the one the page runs.  jStat.mean is the *)
(* sum over the length and jStat.variance(x, true) the sum of squared       *)
(* deviations over n - 1.  A test returns [messages, result]: what it       *)
(* appended to the results and what it returned.  p-values and confidence   *)
(* intervals come from the t and F distributions and are left out; ln(F)    *)
(* is held as [ln |-> F].                                                   *)

\* jStat.mean(x) for integers x
meanOf(x) == Norm(SumInt(x), Len(x))

\* jStat.variance(x, true) for integers x
sampleVarianceOf(x) ==
  LET m == meanOf(x)
      squares == [i \in 1..Len(x) |-> RMul(RSub(R(x[i]), m), RSub(R(x[i]), m))]
  IN  RDiv(SumNumbers(squares, Len(x)), R(Len(x) - 1))

\* a.map((val, i) => val - b[i]), for b at least as long as a
pairedDiffs(a, b) == [i \in 1..Len(a) |-> a[i] - b[i]]

\* the paired t-test without the test of the lengths
runPairedTTestUnchecked(a, b) ==
  LET n == IF Len(a) < Len(b) THEN Len(a) ELSE Len(b)
      diffs == pairedDiffs(SubSeq(a, 1, n), b)
      meanDiff == meanOf(diffs)
      varDiff == sampleVarianceOf(diffs)
  IN  [messages |-> <<>>,
       result   |-> [t        |-> overRoot(meanDiff, RDiv(varDiff, R(n))),
                     dof      |-> n - 1,
                     meanDiff |-> meanDiff,
                     cohenD   |-> overRoot(meanDiff, varDiff)]]

\* runPairedTTest(a, b, resultsDiv)
runPairedTTest(a, b) ==
  IF Len(a) # Len(b)
  THEN [messages |-> <<"Paired t-test requires arrays of the same length.">>,
        result   |-> Undefined]
  ELSE LET n == Len(a)
           diffs == pairedDiffs(a, b)
           meanDiff == meanOf(diffs)
           varDiff == sampleVarianceOf(diffs)
       IN  [messages |-> <<>>,
            result   |-> [t        |-> overRoot(meanDiff, RDiv(varDiff, R(n))),
                          dof      |-> n - 1,
                          meanDiff |-> meanDiff,
                          cohenD   |-> overRoot(meanDiff, varDiff)]]

\* Math.log(F)
logOf(F) == [ln |-> F]

\* numeratorDof and denominatorDof, written as df1 and df2
varianceDof(var1, var2, n1, n2) ==
  [df1 |-> IF RGt(var1, var2) THEN n1 - 1 ELSE n2 - 1,
   df2 |-> IF RGt(var1, var2) THEN n2 - 1 ELSE n1 - 1]

\* what runVarianceTest writes and returns, from the two variances
varianceComparison(var1, var2, n1, n2, F) ==
  [messages |-> <<>>,
   written  |-> varianceDof(var1, var2, n1, n2),
   result   |-> [var1           |-> var1,
                 var2           |-> var2,
                 F              |-> F,
                 effectSize     |-> logOf(F),
                 largerDataset  |-> IF RGt(var1, var2) THEN "A" ELSE "B"]]

\* var1 > var2 ? var1 / var2 : var2 / var1
varianceRatioOf(var1, var2) == IF RGt(var1, var2) THEN RDiv(var1, var2) ELSE RDiv(var2, var1)

\* the variance test from the two variances on
compareVariances(var1, var2, n1, n2) ==
  varianceComparison(var1, var2, n1, n2, varianceRatioOf(var1, var2))

\* runVarianceTest(a, b, resultsDiv)
runVarianceTest(a, b) ==
  IF Len(a) < 2 \/ Len(b) < 2
  THEN [messages |-> <<"Variance test requires at least 2 data points per group.">>,
        written  |-> Undefined,
        result   |-> Undefined]
  ELSE compareVariances(sampleVarianceOf(a), sampleVarianceOf(b), Len(a), Len(b))

\* what runFramePacingTest returns, from the two analyses
pacingComparison(pacingA, pacingB) ==
  [messages |-> <<>>,
   result   |-> [pacingA            |-> pacingA,
                 pacingB            |-> pacingB,
                 consistencyDiff    |-> RSub(pacingB.consistency, pacingA.consistency),
                 avgTransitionDiff  |-> RSub(pacingA.avgTransition, pacingB.avgTransition),
                 badTransitionsDiff |-> Len(pacingA.badTransitions)
                                          - Len(pacingB.badTransitions)]]

\* runFramePacingTest(a, b, resultsDiv)
runFramePacingTest(a, b) ==
  pacingComparison(analyzeFramePacing(a), analyzeFramePacing(b))

\* the effect-size label: the first band whose upper limit the size is below
bandOf(below02, below05, below08) ==
  IF below02 THEN "negligible"
  ELSE IF below05 THEN "small"
  ELSE IF below08 THEN "medium"
  ELSE "large"

\* interpretTTestResult(cohenD): Math.abs(cohenD) < c is cohenD^2 < c^2
interpretTTestResult(cohenD) ==
  [effectSizeText |-> bandOf(RLt(cohenD.square, <<1, 25>>),
                             RLt(cohenD.square, <<1, 4>>),
                             RLt(cohenD.square, <<16, 25>>)),
   direction      |-> IF cohenD.sign > 0 THEN "higher" ELSE "lower"]

\* e^0.5, e^1 and e^1.5 to four decimals; no ratio of two variances of the
\* modelled samples lies between one of them and the exact value
ExpHalf == <<16487, 10000>>

ExpOne == <<27183, 10000>>

ExpOneAndHalf == <<44817, 10000>>

\* Math.abs(Math.log(F)) < c, for the bound e^c: the logarithm is increasing
absLogBelow(effectSize, bound) ==
  RLt(effectSize.ln, bound) /\ RLt(RDiv(R(1), effectSize.ln), bound)

\* interpretVarianceTest(effectSize, pValue)
interpretVarianceTest(effectSize) ==
  [effectSizeText |-> bandOf(absLogBelow(effectSize, ExpHalf),
                             absLogBelow(effectSize, ExpOne),
                             absLogBelow(effectSize, ExpOneAndHalf))]

\* interpretFramePacingResult(consistencyDiff)
interpretFramePacingResult(consistencyDiff) ==
  [effectSizeText |-> bandOf(RLt(RAbs(consistencyDiff), R(2)),
                             RLt(RAbs(consistencyDiff), R(5)),
                             RLt(RAbs(consistencyDiff), R(10))),
   assessmentText |-> IF RGt(consistencyDiff, R(5)) THEN "significant improvement"
                      ELSE IF RGt(consistencyDiff, R(2)) THEN "moderate improvement"
                      ELSE IF RGt(consistencyDiff, R(0)) THEN "slight improvement"
                      ELSE IF RGt(consistencyDiff, R(-2)) THEN "negligible change"
                      ELSE "degradation"]

\* nothing was written to #testInterpretation
NoInterpretation == [none |-> TRUE]

TruncationNote == "Arrays differ in length. Truncating for paired test."

\* the tests whose samples runStatisticalTest cuts to the shorter length
truncatesFor(type) == type = "ttest"

\* the interpretation written for what the test of the selected type returned
interpretationOf(type, result) ==
  CASE type = "ttest" ->
         IF result # Undefined THEN interpretTTestResult(result.cohenD)
         ELSE NoInterpretation
    [] type = "variance" ->
         IF result # Undefined THEN interpretVarianceTest(result.effectSize)
         ELSE NoInterpretation
    [] type = "framepacing" ->
         interpretFramePacingResult(result.consistencyDiff)

\* what a test appended and returned, with its interpretation
interpreted(type, test) ==
  [messages       |-> test.messages,
   result         |-> test.result,
   interpretation |-> interpretationOf(type, test.result)]

\* the test of the selected type on the samples it is given, and the
\* interpretation of what it returned
dispatchTest(type, a, b) ==
  interpreted(type, CASE type = "ttest"       -> runPairedTTest(a, b)
                      [] type = "variance"    -> runVarianceTest(a, b)
                      [] type = "framepacing" -> runFramePacingTest(a, b))

\* the outcome of runStatisticalTest when the test was called with a and b
outcomeOf(type, a, b, note, run) ==
  [testType |-> type, called |-> TRUE, passedA |-> a, passedB |-> b,
   messages |-> note \o run.messages,
   result |-> run.result, interpretation |-> run.interpretation]

\* the test called on a and b, after the note (if any) about the truncation
calledWith(type, a, b, note) == outcomeOf(type, a, b, note, dispatchTest(type, a, b))

\* runStatisticalTest() from the two samples on: passedA and passedB are the
\* arrays the test was called with
runStatisticalTest(type, A, B) ==
  IF Len(A) = 0 \/ Len(B) = 0
  THEN [testType |-> type, called |-> FALSE, passedA |-> <<>>, passedB |-> <<>>,
        messages |-> <<"One or both datasets had no valid data for that metric.">>,
        result |-> Undefined, interpretation |-> NoInterpretation]
  ELSE IF truncatesFor(type) /\ Len(A) # Len(B)
       THEN calledWith(type, SubSeq(A, 1, MinInt(Len(A), Len(B))),
                       SubSeq(B, 1, MinInt(Len(A), Len(B))), <<TruncationNote>>)
       ELSE calledWith(type, A, B, <<>>)

----------------------------------------------------------------------------
(* Inputs of runStatisticalTest *)

\* most values of a dataset entered value by value
MaxData == 3

\* frame times (ms)
DataValues == {6, 7, 16}

\* a capture with one spike at its end
SpikeCapture == <<6, 6, 6, 16>>

\* steady captures whose consistency scores are about one point apart
SteadyCaptures == {<<15, 16, 17>>, <<16, 17, 18>>}

TestTypes == {"ttest", "variance", "framepacing"}

NotSuite == <<statsVars, metricVars, pacingVars, testVars, rowVars, bootVars, argVars, uploadVars, doubleVars, chartVars>>

\* the test is chosen in #testSelect
SelectTest ==
  /\ \E type \in TestTypes : type # testType /\ testType' = type
  /\ report' = NoResult
  /\ UNCHANGED <<dataA, dataB, NotSuite>>

\* a value joins dataset A
PushDataA ==
  /\ Len(dataA) < MaxData
  /\ \E v \in DataValues : dataA' = Append(dataA, v)
  /\ report' = NoResult
  /\ UNCHANGED <<testType, dataB, NotSuite>>

\* a value joins dataset B
PushDataB ==
  /\ Len(dataB) < MaxData
  /\ \E v \in DataValues : dataB' = Append(dataB, v)
  /\ report' = NoResult
  /\ UNCHANGED <<testType, dataA, NotSuite>>

\* the capture with the spike is dataset A
LoadSpikeA ==
  /\ dataA = <<>>
  /\ dataA' = SpikeCapture
  /\ report' = NoResult
  /\ UNCHANGED <<testType, dataB, NotSuite>>

\* two steady captures, one frame time apart, are the two datasets
LoadSteadyCaptures ==
  /\ dataA = <<>>
  /\ dataB = <<>>
  /\ \E a \in SteadyCaptures : \E b \in SteadyCaptures :
        /\ dataA' = a
        /\ dataB' = b
  /\ report' = NoResult
  /\ UNCHANGED <<testType, NotSuite>>

\* the Run button: runStatisticalTest()
RunStatisticalTest ==
  /\ report = NoResult
  /\ report' = [call |-> "runStatisticalTest",
                out  |-> runStatisticalTest(testType, dataA, dataB)]
  /\ UNCHANGED <<testType, dataA, dataB, NotSuite>>

\* runPairedTTest called on the two datasets as they are
CallPairedTTest ==
  /\ report = NoResult
  /\ report' = [call |-> "runPairedTTest", out |-> runPairedTTest(dataA, dataB)]
  /\ UNCHANGED <<testType, dataA, dataB, NotSuite>>

\* runVarianceTest called on the two datasets as they are
CallVarianceTest ==
  /\ report = NoResult
  /\ report' = [call |-> "runVarianceTest", out |-> runVarianceTest(dataA, dataB)]
  /\ UNCHANGED <<testType, dataA, dataB, NotSuite>>

InitSuite == IdleStats /\ IdleMetric /\ IdlePacing /\ IdleTests /\ IdleSuite /\ IdleRow /\ IdleBoot /\ IdleArgs /\ IdleUpload /\ IdleDoubles /\ IdleChart

NextSuite ==
  \/ SelectTest
  \/ PushDataA
  \/ PushDataB
  \/ LoadSpikeA
  \/ LoadSteadyCaptures
  \/ RunStatisticalTest
  \/ CallPairedTTest
  \/ CallVarianceTest

SpecSuite == InitSuite /\ [][NextSuite]_vars

----------------------------------------------------------------------------
(* Reference definitions for runStatisticalTest and its tests *)

\* runStatisticalTest has run and has called the selected test
SuiteRan ==
  /\ report # NoResult
  /\ report.call = "runStatisticalTest"
  /\ report.out.called

\* the test returned an effect size that is NaN or infinite
NonFiniteEffect ==
  /\ report.out.result # Undefined
  /\ \/ testType = "ttest" /\ ~IsFinite(report.out.result.cohenD.square)
     \/ testType = "variance" /\ ~IsFinite(report.out.result.effectSize.ln)

\* C12: a non-finite effect size (Cohen's d of two identical paired samples,
\* ln(F) with a sample of zero variance) is returned without an exception and
\* is interpreted as 'cannot determine', not as negligible, small, medium or
\* large.
C12_NonFiniteCannotDetermine ==
  (SuiteRan /\ NonFiniteEffect) =>
     /\ report.out.interpretation # NoInterpretation
     /\ report.out.interpretation.effectSizeText = "cannot determine"

\* the part of C12 that holds: the non-finite effect size is returned and is
\* handed to the interpretation, which calls it large
C12_NonFiniteIsLarge ==
  (SuiteRan /\ NonFiniteEffect) =>
     /\ report.out.interpretation # NoInterpretation
     /\ report.out.interpretation.effectSizeText = "large"

\* the samples cut to the length of the shorter one
ShorterLength == MinInt(Len(dataA), Len(dataB))

\* C13: with samples of different lengths and the paired t-test or the
\* frame-pacing test selected, both samples are cut to their first
\* min(|A|, |B|) values before the test is called and a truncation message is
\* written; samples of equal length are passed unchanged, with no such message.
C13_UnequalSamplesTruncated ==
  (SuiteRan /\ testType \in {"ttest", "framepacing"}) =>
     IF Len(dataA) # Len(dataB)
     THEN /\ report.out.passedA = SubSeq(dataA, 1, ShorterLength)
          /\ report.out.passedB = SubSeq(dataB, 1, ShorterLength)
          /\ TruncationNote \in Range(report.out.messages)
     ELSE /\ report.out.passedA = dataA
          /\ report.out.passedB = dataB
          /\ TruncationNote \notin Range(report.out.messages)

\* the part of C13 that holds: the paired t-test alone
C13_TTestSamplesTruncated ==
  (SuiteRan /\ testType = "ttest") =>
     IF Len(dataA) # Len(dataB)
     THEN /\ report.out.passedA = SubSeq(dataA, 1, ShorterLength)
          /\ report.out.passedB = SubSeq(dataB, 1, ShorterLength)
          /\ TruncationNote \in Range(report.out.messages)
     ELSE /\ report.out.passedA = dataA
          /\ report.out.passedB = dataB
          /\ TruncationNote \notin Range(report.out.messages)

\* runPairedTTest was called on the two datasets
PairedCalled == report # NoResult /\ report.call = "runPairedTTest"

\* sum over i of (dataA[i] - dataB[i])^k, k = 1 or 2, for equal lengths
RECURSIVE DiffPowerSum(_, _)
DiffPowerSum(k, i) ==
  IF i = 0 THEN 0
  ELSE LET d == dataA[i] - dataB[i]
       IN  (IF k = 1 THEN d ELSE d * d) + DiffPowerSum(k, i - 1)

\* the mean of the differences and their sample variance, the latter as
\* (sum of squares - n * mean^2) / (n - 1)
MeanOfDiffs == Norm(DiffPowerSum(1, Len(dataA)), Len(dataA))

VarianceOfDiffs ==
  LET n == Len(dataA)
  IN  IF n = 0 THEN R(0)
      ELSE RDiv(RSub(R(DiffPowerSum(2, n)),
                     Norm(DiffPowerSum(1, n) * DiffPowerSum(1, n), n)),
                R(n - 1))

\* meanDiff / sdDiff as sign and square
CohenDOfDiffs ==
  LET square == RDiv(RMul(MeanOfDiffs, MeanOfDiffs), VarianceOfDiffs)
  IN  [sign   |-> IF IsNaN(square) THEN 0 ELSE SignInt(DiffPowerSum(1, Len(dataA))),
       square |-> square]

\* C14: runPairedTTest on arrays of different lengths appends an error
\* message, returns no result and computes no statistic; on arrays of equal
\* length n it returns a result with dof = n - 1 and cohenD = meanDiff / sdDiff.
C14_PairedNeedsEqualLengths ==
  PairedCalled =>
     IF Len(dataA) # Len(dataB)
     THEN /\ report.out.result = Undefined
          /\ report.out.messages # <<>>
     ELSE /\ report.out.result # Undefined
          /\ report.out.messages = <<>>
          /\ report.out.result.dof = Len(dataA) - 1
          /\ report.out.result.meanDiff = MeanOfDiffs
          /\ report.out.result.cohenD = CohenDOfDiffs

\* C14 witness: arrays of different lengths, refused
C14_Witness ==
  /\ PairedCalled
  /\ Len(dataA) = 3
  /\ Len(dataB) = 2
  /\ report.out.result = Undefined

\* C14 second witness: arrays of equal length with a finite non-zero Cohen's d
C14_WitnessEqual ==
  /\ PairedCalled
  /\ Len(dataA) = Len(dataB)
  /\ Len(dataA) >= 2
  /\ report.out.result # Undefined
  /\ report.out.result.cohenD.sign = -1
  /\ IsFinite(report.out.result.cohenD.square)

\* C15: the three differentials of runFramePacingTest (consistency, median
\* transition, number of bad transitions) are each the value of dataset B
\* minus the value of dataset A, the transition one computed from the median
\* transition.
C15_DifferentialsBMinusA ==
  (SuiteRan /\ testType = "framepacing") =>
     LET r == report.out.result
     IN  /\ r.consistencyDiff = RSub(r.pacingB.consistency, r.pacingA.consistency)
         /\ r.avgTransitionDiff =
              RSub(r.pacingB.medianTransition, r.pacingA.medianTransition)
         /\ r.badTransitionsDiff =
              Len(r.pacingB.badTransitions) - Len(r.pacingA.badTransitions)

\* what holds of the three differentials: consistency is B minus A, the
\* other two are A minus B, the transition one from the average transition
C15_DifferentialsAsReturned ==
  (SuiteRan /\ testType = "framepacing") =>
     LET r == report.out.result
     IN  /\ r.pacingA = analyzeFramePacing(dataA)
         /\ r.pacingB = analyzeFramePacing(dataB)
         /\ r.consistencyDiff = RSub(r.pacingB.consistency, r.pacingA.consistency)
         /\ r.avgTransitionDiff = RSub(r.pacingA.avgTransition, r.pacingB.avgTransition)
         /\ r.badTransitionsDiff =
              Len(r.pacingA.badTransitions) - Len(r.pacingB.badTransitions)

----------------------------------------------------------------------------
(* normaliseRow (dataManager.js, src/unnamed/part_000).  The row object is   *)
(* changed in place: normaliseRow(row) below is the row after the call.     *)
(* Cells are finite numbers, strings that are not numbers, or null (a JSON  *)
(* capture can hold null).                                                  *)

\* the scale 0.001 of frametime(us)
Milli == <<1, 1000>>

FRAME_ALIASES ==
  << [key |-> <<"f", "r", "a", "m", "e", "t", "i", "m", "e">>, scale |-> R(1)],
     [key |-> <<"f", "r", "a", "m", "e", "t", "i", "m", "e", "(", "m", "s", ")">>, scale |-> R(1)],
     [key |-> <<"f", "r", "a", "m", "e", "t", "i", "m", "e", "(", "u", "s", ")">>, scale |-> Milli],
     [key |-> <<"m", "s", "b", "e", "t", "w", "e", "e", "n", "p", "r", "e", "s", "e", "n", "t", "s">>, scale |-> R(1)],
     [key |-> <<"f", "r", "a", "m", "e", " ", "d", "e", "l", "t", "a", " ", "t", "i", "m", "e", "(", "m", "s", ")">>, scale |-> R(1)] >>

\* /\s+/g of canonKey does not match this character
IsNotSpace(c) == c # " "

\* canonKey(str): lower case, white space removed
canonKey(str) == SelectSeq(toLowerCase(str), IsNotSpace)

\* map[key] after Object.keys(row).forEach(k => map[canonKey(k)] = k): the
\* last key of the row with that canonical form, or Undefined
mapOf(row, key) ==
  LET hits == {i \in 1..Len(row) : canonKey(row[i][1]) = key}
  IN  IF hits = {} THEN Undefined
      ELSE row[CHOOSE i \in hits : \A j \in hits : j <= i][1]

\* Number(cell)
toNumber(cell) ==
  IF cell.type = "number" THEN cell.value
  ELSE IF cell = Null THEN R(0)
  ELSE NaN

\* Number.isFinite(cell)
isFiniteNumber(cell) == cell.type = "number" /\ IsFinite(cell.value)

\* cell == null
isNullish(cell) == cell = Null \/ cell = Undefined

\* row[key] = cell
Set(row, key, cell) ==
  IF \E i \in 1..Len(row) : row[i][1] = key
  THEN [i \in 1..Len(row) |-> IF row[i][1] = key THEN <<key, cell>> ELSE row[i]]
  ELSE Append(row, <<key, cell>>)

\* the loop over FRAME_ALIASES from alias i on: the FrameTime it assigns, or
\* Undefined when it ends without an assignment
RECURSIVE frameTimeFromAliases(_, _)
frameTimeFromAliases(row, i) ==
  IF i > Len(FRAME_ALIASES) THEN Undefined
  ELSE LET m == mapOf(row, FRAME_ALIASES[i].key)
           v == IF m = Undefined THEN NaN ELSE toNumber(Get(row, m))
       IN  IF m # Undefined /\ IsFinite(v)
           THEN Num(RMul(v, FRAME_ALIASES[i].scale))
           ELSE frameTimeFromAliases(row, i + 1)

LowerFps == <<"f", "p", "s">>

\* normaliseRow(row)
normaliseRow(row) ==
  LET fromAlias == frameTimeFromAliases(row, 1)
      withFrameTime ==
        IF isNullish(Get(row, KeyFrameTime)) /\ fromAlias # Undefined
        THEN Set(row, KeyFrameTime, fromAlias)
        ELSE row
      fpsKey == mapOf(row, LowerFps)
      frameTime == Get(withFrameTime, KeyFrameTime)
      withFps ==
        IF ~isNullish(Get(withFrameTime, KeyFPS)) THEN withFrameTime
        ELSE IF fpsKey # Undefined /\ isFiniteNumber(Get(withFrameTime, fpsKey))
        THEN Set(withFrameTime, KeyFPS, Get(withFrameTime, fpsKey))
        ELSE IF isFiniteNumber(frameTime) /\ RGt(frameTime.value, R(0))
        THEN Set(withFrameTime, KeyFPS, Num(RDiv(R(1000), frameTime.value)))
        ELSE withFrameTime
      fps == Get(withFps, KeyFPS)
  IN  IF isNullish(Get(withFps, KeyFrameTime)) /\ isFiniteNumber(fps)
         /\ RGt(fps.value, R(0))
      THEN Set(withFps, KeyFrameTime, Num(RDiv(R(1000), fps.value)))
      ELSE withFps

----------------------------------------------------------------------------
(* Inputs of normaliseRow *)

\* most columns of a row
MaxFields == 2

\* column names of capture tools, in several spellings
FieldNames ==
  { KeyFrameTime,
    <<"f", "r", "a", "m", "e", "t", "i", "m", "e", "(", "m", "s", ")">>,
    <<"F", "r", "a", "m", "e", "T", "i", "m", "e", "(", "u", "s", ")">>,
    <<"M", "s", "B", "e", "t", "w", "e", "e", "n", "P", "r", "e", "s", "e", "n", "t", "s">>,
    <<"F", "r", "a", "m", "e", " ", "d", "e", "l", "t", "a", " ", "t", "i", "m", "e", "(", "m", "s", ")">>,
    KeyFPS,
    LowerFps }

\* a frame time (ms, or microseconds in a frametime(us) column)
FieldMs == 16

\* the cells of a row: text, null, 0 or a positive number
FieldCells == {Text, Null, Num(R(0)), Num(R(FieldMs))}

NotRow == <<statsVars, metricVars, pacingVars, testVars, suiteVars, bootVars, argVars, uploadVars, doubleVars, chartVars>>

\* a column joins the row object
AddField ==
  /\ Len(rowIn) < MaxFields
  /\ \E k \in FieldNames, cell \in FieldCells :
        /\ \A c \in 1..Len(rowIn) : rowIn[c][1] # k
        /\ rowIn' = Append(rowIn, <<k, cell>>)
  /\ rowOut' = NoResult
  /\ UNCHANGED NotRow

\* normaliseRow(obj) of parseCSV, normaliseRow(r) of parseCfxJson
NormaliseRow ==
  /\ rowOut = NoResult
  /\ rowOut' = [row |-> normaliseRow(rowIn)]
  /\ UNCHANGED <<rowIn, NotRow>>

InitRow == IdleStats /\ IdleMetric /\ IdlePacing /\ IdleTests /\ IdleSuite /\ IdleRow /\ IdleBoot /\ IdleArgs /\ IdleUpload /\ IdleDoubles /\ IdleChart

NextRow == AddField \/ NormaliseRow

SpecRow == InitRow /\ [][NextRow]_vars

----------------------------------------------------------------------------
(* Reference definitions for normaliseRow *)

\* normaliseRow has run on rowIn
Normalised == rowOut # NoResult

\* column c of rowIn is named like alias i, ignoring case and spaces
NamedLike(c, i) == canonKey(rowIn[c][1]) = canonKey(FRAME_ALIASES[i].key)

\* the frame times (ms) of the alias columns of rowIn that hold a number
AliasFrameTimes ==
  { RMul(rowIn[p[1]][2].value, FRAME_ALIASES[p[2]].scale) :
      p \in { q \in (1..Len(rowIn)) \X (1..Len(FRAME_ALIASES)) :
                NamedLike(q[1], q[2]) /\ rowIn[q[1]][2].type = "number" } }

\* the columns of rowIn named fps, ignoring case and spaces
FpsColumns == {c \in 1..Len(rowIn) : canonKey(rowIn[c][1]) = LowerFps}

\* the numbers in them
FpsNumbers == {rowIn[c][2] : c \in {d \in FpsColumns : rowIn[d][2].type = "number"}}

\* C16: after normaliseRow, a row that had no FrameTime and has a column
\* holding a number whose name is one of the five aliases, ignoring case and
\* spaces, has FrameTime set to that number in milliseconds (times 0.001 for
\* frametime(us)); its FPS is the number of an fps column if there is one,
\* and 1000 / FrameTime if there is no fps column and FrameTime > 0.  A
\* FrameTime that was there is left as it was.
C16_AliasesGiveFrameTime ==
  Normalised =>
    LET before == Get(rowIn, KeyFrameTime)
        after == Get(rowOut.row, KeyFrameTime)
        fps == Get(rowOut.row, KeyFPS)
    IN  /\ (isNullish(before) /\ AliasFrameTimes # {}) =>
              /\ after.type = "number"
              /\ after.value \in AliasFrameTimes
              /\ FpsNumbers # {} => fps \in FpsNumbers
              /\ (FpsColumns = {} /\ RGt(after.value, R(0))) =>
                    fps = Num(RDiv(R(1000), after.value))
        /\ ~isNullish(before) => after = before

\* column c of rowIn has the canonical name that alias i is written with
NamedAsWritten(c, i) == canonKey(rowIn[c][1]) = FRAME_ALIASES[i].key

\* some column before alias i in the order of FRAME_ALIASES, or a later
\* column of the same alias, is read as a finite number
Preceded(c, i) ==
  \E d \in 1..Len(rowIn), j \in 1..Len(FRAME_ALIASES) :
     /\ NamedAsWritten(d, j)
     /\ \/ j < i /\ \A e \in (d + 1)..Len(rowIn) : ~NamedAsWritten(e, j)
        \/ j = i /\ d > c
     /\ j < i => rowIn[d][2].type = "number" \/ rowIn[d][2] = Null

\* what holds of FrameTime: the aliases are looked up as they are written in
\* FRAME_ALIASES, in that order, the last column of an alias counts, and
\* null is read as 0
C16_AliasesAsWritten ==
  Normalised =>
    LET before == Get(rowIn, KeyFrameTime)
        after == Get(rowOut.row, KeyFrameTime)
    IN  /\ ~isNullish(before) => after = before
        /\ isNullish(before) =>
             \A c \in 1..Len(rowIn), i \in 1..Len(FRAME_ALIASES) :
                (/\ NamedAsWritten(c, i)
                 /\ rowIn[c][2].type = "number"
                 /\ ~Preceded(c, i))
                   => after = Num(RMul(rowIn[c][2].value, FRAME_ALIASES[i].scale))

----------------------------------------------------------------------------
(* bootstrapConfidenceInterval (chartManager.js).  The call is followed      *)
(* through its resampling loop: one step per pass of the outer loop.  The   *)
(* n values of a resample are data[Math.floor(Math.random() * n)] for n     *)
(* independent draws, so the resamples a pass can produce are exactly the   *)
(* sequences of n values of data.                                           *)

\* data.length < 10 returns NaN
minBootstrapLength == 10

\* the metric 'Median' of visualizeBootstrapCI
medianFunc(data) == calculatePercentile(SortNumbers(AsNumbers(data)), R(50))

\* the metric '1% Low' of visualizeBootstrapCI
lowFunc(data) ==
  LET sorted  == SortNumbers(AsNumbers(data))
      p1Count == MaxInt(1, CeilInt(RMul(R(Len(sorted)), <<1, 100>>)))
  IN  RDiv(SumNumbers(sorted, p1Count), R(p1Count))

\* statFunc(data)
statFunc(name, data) == IF name = "median" THEN medianFunc(data) ELSE lowFunc(data)

\* bootStats[index], undefined outside the array
at(array, index) ==
  IF index >= 0 /\ index < Len(array) THEN array[index + 1] ELSE Undefined

\* the interval read from bootStats as the loop left it, without the sort
intervalUnsorted(collected, iterations, confidenceLevel, originalStat) ==
  LET a          == RSub(R(1), confidenceLevel)
      lowerIndex == FloorInt(RMul(R(iterations), RDiv(a, R(2))))
      upperIndex == FloorInt(RMul(R(iterations), RSub(R(1), RDiv(a, R(2)))))
  IN  [lower |-> at(collected, lowerIndex),
       upper |-> at(collected, upperIndex),
       mean  |-> originalStat]

\* bootstrapConfidenceInterval after the loop: sort, indexes, result
intervalOf(collected, iterations, confidenceLevel, originalStat) ==
  LET sorted     == SortNumbers(collected)
      a          == RSub(R(1), confidenceLevel)
      lowerIndex == FloorInt(RMul(R(iterations), RDiv(a, R(2))))
      upperIndex == FloorInt(RMul(R(iterations), RSub(R(1), RDiv(a, R(2)))))
  IN  [lower |-> at(sorted, lowerIndex),
       upper |-> at(sorted, upperIndex),
       mean  |-> originalStat]

----------------------------------------------------------------------------
(* Inputs of bootstrapConfidenceInterval *)

\* most passes of the resampling loop
MaxIterations == 3

\* ten frames, alternating between two frame times
TenFrames == <<6, 16, 6, 16, 6, 16, 6, 16, 6, 16>>

\* ten frames, the last one a spike
TenWithSpike == <<6, 6, 6, 6, 6, 6, 6, 6, 6, 16>>

\* one frame too few
NineFrames == <<6, 16, 6, 16, 6, 16, 6, 16, 6>>

BootCaptures == {TenFrames, TenWithSpike, NineFrames}

StatFuncs == {"median", "low1"}

\* confidence levels: 0.2 and the default 0.95
ConfidenceLevels == {<<1, 5>>, <<19, 20>>}

\* the values a resample is drawn from
ValuesOf(data) == {data[i] : i \in 1..Len(data)}

NotBoot == <<statsVars, metricVars, pacingVars, testVars, suiteVars, rowVars, argVars, uploadVars, doubleVars, chartVars>>

\* bootstrapConfidenceInterval(data, statFunc, iterations, confidenceLevel)
\* up to the resampling loop
CallBootstrap ==
  /\ bootPc # "resampling"
  /\ \E data \in BootCaptures, f \in StatFuncs, n \in 1..MaxIterations,
        level \in ConfidenceLevels :
        /\ bootData' = data
        /\ bootFunc' = f
        /\ bootIterations' = n
        /\ bootLevel' = level
        /\ bootStats' = <<>>
        /\ IF Len(data) < minBootstrapLength
           THEN /\ bootPc' = "returned"
                /\ bootCI' = [lower |-> NaN, upper |-> NaN, mean |-> NaN]
           ELSE /\ bootPc' = "resampling"
                /\ bootCI' = NoResult
  /\ UNCHANGED NotBoot

\* one pass of the loop: a resample is drawn and its statistic stored
Resample ==
  /\ bootPc = "resampling"
  /\ Len(bootStats) < bootIterations
  /\ \E bootSample \in [1..Len(bootData) -> ValuesOf(bootData)] :
        bootStats' = Append(bootStats, statFunc(bootFunc, bootSample))
  /\ UNCHANGED <<bootData, bootFunc, bootIterations, bootLevel, bootPc, bootCI, NotBoot>>

\* after the loop: the sort and the return
ReturnInterval ==
  /\ bootPc = "resampling"
  /\ Len(bootStats) = bootIterations
  /\ bootCI' = intervalOf(bootStats, bootIterations, bootLevel,
                          statFunc(bootFunc, bootData))
  /\ bootPc' = "returned"
  /\ UNCHANGED <<bootData, bootFunc, bootIterations, bootLevel, bootStats, NotBoot>>

InitBoot == IdleStats /\ IdleMetric /\ IdlePacing /\ IdleTests /\ IdleSuite /\ IdleRow /\ IdleBoot /\ IdleArgs /\ IdleUpload /\ IdleDoubles /\ IdleChart

NextBoot == CallBootstrap \/ Resample \/ ReturnInterval

SpecBoot == InitBoot /\ [][NextBoot]_vars

----------------------------------------------------------------------------
(* Reference definitions for bootstrapConfidenceInterval *)

\* the call has returned for a sample of at least 10 values
Bootstrapped == bootPc = "returned" /\ Len(bootData) >= 10

\* the statistic of a sample of at most 100 values, by counting: the median,
\* or the lowest value (the lowest 1% of at most 100 values is one value)
StatisticOf(name, sample) ==
  IF name = "median" THEN Median(AsNumbers(sample))
  ELSE KthSmallest(AsNumbers(sample), 1)

\* floor(iterations * alpha / 2) and floor(iterations * (1 - alpha / 2)) for
\* alpha = 1 - confidenceLevel = p / q
LowerIndex ==
  LET p == bootLevel[2] - bootLevel[1]
      q == bootLevel[2]
  IN  (bootIterations * p) \div (2 * q)

UpperIndex ==
  LET p == bootLevel[2] - bootLevel[1]
      q == bootLevel[2]
  IN  (bootIterations * (2 * q - p)) \div (2 * q)

C17_WitnessInnerIndex ==
  /\ Bootstrapped
  /\ bootIterations = 3
  /\ LowerIndex = 1
  /\ bootStats[1] # bootStats[2]
  /\ bootCI.lower = bootCI.upper

----------------------------------------------------------------------------
(* What the functions do to arrays.  A function body is the sequence of its  *)
(* statements that create, bind or write an array, in source order;         *)
(* statements that only read are left out.  Array objects live in a heap    *)
(* (a sequence of arrays), variables are bound to objects by an             *)
(* environment, so that `x = y` shares an object and `x = [...y]` makes a   *)
(* new one.  A loop that writes one array is one statement.  The values     *)
(* written to arrays other than the arguments are not followed: they are 0. *)
(* jStat.mean, jStat.stdev and jStat.variance only read their argument.     *)

\* dst = [...src] taken as dst = src
SpreadByReference(dst, src) == [op |-> "alias", dst |-> dst, src |-> src]

\* dst = [...src]
Spread(dst, src) == [op |-> "spread", dst |-> dst, src |-> src]

\* dst = src
Alias(dst, src) == [op |-> "alias", dst |-> dst, src |-> src]

\* dst = [], new Array(n), Array(n), src.map(...) with n elements
Fresh(dst, n) == [op |-> "fresh", dst |-> dst, n |-> n]

\* arr.sort((a, b) => a - b)
SortOf(array) == [op |-> "sort", arr |-> array]

\* arr.reverse()
ReverseOf(array) == [op |-> "reverse", arr |-> array]

\* for (i = 0; i < n; i++) arr[i] = ..., or n times arr.push(...)
Fill(array, n) == [op |-> "fill", arr |-> array, n |-> n]

\* f(args) for a function f with the parameters params and the body body
Call(body, params, args) ==
  [op |-> "call", body |-> body, params |-> params, args |-> args]

Zeros(n) == [i \in 1..n |-> 0] \o <<>>

\* the array after its first n elements were written
filled(array, n) ==
  Zeros(n) \o (IF Len(array) > n THEN SubSeq(array, n + 1, Len(array)) ELSE <<>>)

\* the environment of a call: the parameters bound to the objects of the
\* arguments
bindingOf(env, params, args) ==
  [p \in {params[i] : i \in 1..Len(params)} |->
     env[args[CHOOSE i \in 1..Len(params) : params[i] = p]]]

\* the heap after the statements of body from statement i on (the heap is
\* never empty: it holds the arguments)
RECURSIVE execute(_, _, _, _)
execute(body, i, env, heap) ==
  IF i > Len(body) \/ Len(heap) = 0 THEN heap
  ELSE LET s == body[i]
       IN  CASE s.op = "spread" ->
                  execute(body, i + 1, (s.dst :> Len(heap) + 1) @@ env,
                          Append(heap, heap[env[s.src]]))
             [] s.op = "alias" ->
                  execute(body, i + 1, (s.dst :> env[s.src]) @@ env, heap)
             [] s.op = "fresh" ->
                  execute(body, i + 1, (s.dst :> Len(heap) + 1) @@ env,
                          Append(heap, Zeros(s.n)))
             [] s.op = "sort" ->
                  execute(body, i + 1, env,
                          [heap EXCEPT ![env[s.arr]] = SortAsc(@)])
             [] s.op = "reverse" ->
                  execute(body, i + 1, env,
                          [heap EXCEPT ![env[s.arr]] = Reverse(@)])
             [] s.op = "fill" ->
                  execute(body, i + 1, env,
                          [heap EXCEPT ![env[s.arr]] = filled(@, s.n)])
             [] s.op = "call" ->
                  execute(body, i + 1, env,
                          execute(s.body, 1, bindingOf(env, s.params, s.args), heap))

\* calculateStatistics(arr, metricName)
calculateStatisticsBody(sample, isFpsMetric) ==
  IF Len(sample) = 0 THEN <<>>
  ELSE <<Spread("sorted", "arr"), SortOf("sorted")>>
         \o (IF isFpsMetric THEN <<>>
             ELSE <<Spread("desc", "sorted"), ReverseOf("desc")>>)

\* analyzeFramePacing(frametimes)
analyzeFramePacingBody(fts) ==
  IF Len(fts) < 3 THEN <<>>
  ELSE << Spread("sorted", "frametimes"), SortOf("sorted"),
          Fresh("relDeviations", Len(fts)),
          Spread("sortedRelDeviations", "relDeviations"), SortOf("sortedRelDeviations"),
          Fresh("absDeviationsFromMedian", Len(fts)),
          Spread("sortedDevs", "absDeviationsFromMedian"), SortOf("sortedDevs"),
          Fresh("diffs", 0), Fill("diffs", Len(fts) - 1),
          Spread("sortedDiffs", "diffs"), SortOf("sortedDiffs"),
          Fresh("absDeviationsDiff", Len(fts) - 1),
          Spread("sortedDiffDevs", "absDeviationsDiff"), SortOf("sortedDiffDevs"),
          Fresh("badTransitions", 0),
          Fill("badTransitions", Len(analyzeFramePacing(fts).badTransitions)) >>

\* runPairedTTest(a, b)
runPairedTTestBody(a, b) ==
  IF Len(a) # Len(b) THEN <<>> ELSE <<Fresh("diffs", Len(a))>>

\* runVarianceTest(a, b)
runVarianceTestBody(a, b) == <<>>

\* runMannWhitneyTest(a, b)
runMannWhitneyTestBody(a, b) ==
  IF Len(a) < 1 \/ Len(b) < 1 THEN <<>>
  ELSE << Fresh("combined", Len(a) + Len(b)), Fill("combined", Len(a) + Len(b)),
          SortOf("combined"),
          Spread("sortedA", "a"), SortOf("sortedA"),
          Spread("sortedB", "b"), SortOf("sortedB") >>

\* runKolmogorovSmirnovTest(a, b)
runKolmogorovSmirnovTestBody(a, b) ==
  IF Len(a) < 1 \/ Len(b) < 1 THEN <<>>
  ELSE <<Alias("aSubset", "a"), Alias("bSubset", "b")>>
         \o (IF Len(a) > samplingThreshold
             THEN <<Fresh("aSubset", sampleSize), Fill("aSubset", sampleSize)>>
             ELSE <<>>)
         \o (IF Len(b) > samplingThreshold
             THEN <<Fresh("bSubset", sampleSize), Fill("bSubset", sampleSize)>>
             ELSE <<>>)
         \o << Spread("sortedA", "aSubset"), SortOf("sortedA"),
               Spread("sortedB", "bSubset"), SortOf("sortedB"),
               Fresh("combinedValues", 0), SortOf("combinedValues") >>

\* the metric functions of visualizeBootstrapCI: Median and 1% Low sort a
\* copy, Frame Pacing Consistency calls analyzeFramePacing
metricFuncBody(metric, data) ==
  IF metric = "consistency"
  THEN <<Call(analyzeFramePacingBody(data), <<"frametimes">>, <<"data">>)>>
  ELSE <<Spread("sorted", "data"), SortOf("sorted")>>

\* one pass of the resampling loop, for every pass
RECURSIVE bootstrapLoopBody(_, _, _)
bootstrapLoopBody(metric, n, passes) ==
  IF passes = 0 THEN <<>>
  ELSE bootstrapLoopBody(metric, n, passes - 1)
         \o << Fresh("bootSample", n), Fill("bootSample", n),
               Call(metricFuncBody(metric, Zeros(n)), <<"data">>, <<"bootSample">>),
               Fill("bootStats", passes) >>

\* bootstrapConfidenceInterval(data, statFunc, iterations)
bootstrapConfidenceIntervalBody(data, metric, iterations) ==
  IF Len(data) < minBootstrapLength THEN <<>>
  ELSE << Call(metricFuncBody(metric, data), <<"data">>, <<"data">>),
          Fresh("bootStats", iterations) >>
         \o bootstrapLoopBody(metric, Len(data), iterations)
         \o <<SortOf("bootStats")>>

BootMetrics == <<"median", "low1", "consistency">>

\* visualizeBootstrapCI(dataA, dataB, resultsDiv)
visualizeBootstrapCIBody(a, b, iterations) ==
  IF Len(a) < 10 \/ Len(b) < 10 THEN <<>>
  ELSE LET pair(m) ==
             << Call(bootstrapConfidenceIntervalBody(a, BootMetrics[m], iterations),
                     <<"data">>, <<"dataA">>),
                Call(bootstrapConfidenceIntervalBody(b, BootMetrics[m], iterations),
                     <<"data">>, <<"dataB">>) >>
       IN  <<Fresh("ciResults", 0)>> \o pair(1) \o pair(2) \o pair(3)
             \o <<Fill("ciResults", 3)>>

\* the loop of calculateTransitions: each pass sorts a copy of data
RECURSIVE transitionsLoopBody(_)
transitionsLoopBody(passes) ==
  IF passes = 0 THEN <<>>
  ELSE transitionsLoopBody(passes - 1) \o <<Spread("copy", "data"), SortOf("copy")>>

\* calculateTransitions(data)
calculateTransitionsBody(data) ==
  IF Len(data) < 2 THEN <<>>
  ELSE <<Fresh("diffs", 0), Fill("diffs", Len(data) - 1)>>
         \o transitionsLoopBody(Len(data) - 1)
         \o <<Alias("original", "data")>>

\* visualizeFrameTimeStability(dataA, dataB, resultsDiv)
visualizeFrameTimeStabilityBody(a, b) ==
  IF Len(a) < 10 \/ Len(b) < 10 THEN <<>>
  ELSE << Call(calculateTransitionsBody(a), <<"data">>, <<"dataA">>),
          Call(calculateTransitionsBody(b), <<"data">>, <<"dataB">>) >>

\* runFramePacingTest(a, b)
runFramePacingTestBody(a, b, iterations) ==
  << Call(analyzeFramePacingBody(a), <<"frametimes">>, <<"a">>),
     Call(analyzeFramePacingBody(b), <<"frametimes">>, <<"b">>),
     Call(visualizeBootstrapCIBody(a, b, iterations), <<"dataA", "dataB">>, <<"a", "b">>),
     Call(visualizeFrameTimeStabilityBody(a, b), <<"dataA", "dataB">>, <<"a", "b">>) >>

\* the functions with one sample array, and with two
OneSample == {"calculateStatistics", "analyzeFramePacing", "bootstrapConfidenceInterval"}

TwoSamples ==
  {"runPairedTTest", "runMannWhitneyTest", "runKolmogorovSmirnovTest",
   "runVarianceTest", "runFramePacingTest"}

\* the statement f(a, b), or f(a) for a function of one sample: option is
\* the metric (FPS-like or not, or the bootstrap metric function)
callOf(f, a, b, option, iterations) ==
  CASE f = "calculateStatistics" ->
         Call(calculateStatisticsBody(a, option = 1), <<"arr">>, <<"a">>)
    [] f = "analyzeFramePacing" ->
         Call(analyzeFramePacingBody(a), <<"frametimes">>, <<"a">>)
    [] f = "bootstrapConfidenceInterval" ->
         Call(bootstrapConfidenceIntervalBody(a, BootMetrics[option], iterations),
              <<"data">>, <<"a">>)
    [] f = "runPairedTTest" ->
         Call(runPairedTTestBody(a, b), <<"a", "b">>, <<"a", "b">>)
    [] f = "runMannWhitneyTest" ->
         Call(runMannWhitneyTestBody(a, b), <<"a", "b">>, <<"a", "b">>)
    [] f = "runKolmogorovSmirnovTest" ->
         Call(runKolmogorovSmirnovTestBody(a, b), <<"a", "b">>, <<"a", "b">>)
    [] f = "runVarianceTest" ->
         Call(runVarianceTestBody(a, b), <<"a", "b">>, <<"a", "b">>)
    [] f = "runFramePacingTest" ->
         Call(runFramePacingTestBody(a, b, iterations), <<"a", "b">>, <<"a", "b">>)

\* the array objects after the call: object 1 is a, object 2 is b
arraysAfter(f, a, b, option, iterations) ==
  execute(<<callOf(f, a, b, option, iterations)>>, 1,
          ("a" :> 1) @@ ("b" :> 2), <<a, b>>)

----------------------------------------------------------------------------
(* Inputs of the calls *)

\* most values of a sample entered value by value
MaxArg == 3

ArgValues == {1, 2}

NotArgs == <<statsVars, metricVars, pacingVars, testVars, suiteVars, rowVars, bootVars, uploadVars, doubleVars, chartVars>>

PushArgA ==
  /\ Len(argA) < MaxArg
  /\ \E v \in ArgValues : argA' = Append(argA, v)
  /\ callee' = "none"
  /\ arrays' = <<>>
  /\ UNCHANGED <<argB, NotArgs>>

PushArgB ==
  /\ Len(argB) < MaxArg
  /\ \E v \in ArgValues : argB' = Append(argB, v)
  /\ callee' = "none"
  /\ arrays' = <<>>
  /\ UNCHANGED <<argA, NotArgs>>

\* a capture of ten frames as the first or the second sample
LoadArg ==
  /\ \E capture \in {TenFrames, TenWithSpike} :
        \/ argA' = capture /\ argB' = argB
        \/ argB' = capture /\ argA' = argA
  /\ callee' = "none"
  /\ arrays' = <<>>
  /\ UNCHANGED NotArgs

\* the capture of more than 10000 frames as the first sample
LoadLargeArg ==
  /\ argA' = LargeCapture
  /\ callee' = "none"
  /\ arrays' = <<>>
  /\ UNCHANGED <<argB, NotArgs>>

\* one of the functions is called on the samples; the capture of more than
\* 10000 frames is followed through the K-S test only, which alone treats
\* such a sample differently
CallFunction ==
  /\ callee = "none"
  /\ \E f \in OneSample \cup TwoSamples, option \in 1..3 :
        /\ Len(argA) > samplingThreshold => f = "runKolmogorovSmirnovTest"
        /\ f = "calculateStatistics" => option \in 1..2
        /\ f \notin {"calculateStatistics", "bootstrapConfidenceInterval"} => option = 1
        /\ callee' = f
        /\ arrays' = arraysAfter(f, argA, argB, option, MaxIterations)
  /\ UNCHANGED <<argA, argB, NotArgs>>

InitArgs ==
  IdleStats /\ IdleMetric /\ IdlePacing /\ IdleTests /\ IdleSuite /\ IdleRow /\ IdleBoot /\ IdleArgs /\ IdleUpload /\ IdleDoubles /\ IdleChart

NextArgs == PushArgA \/ PushArgB \/ LoadArg \/ LoadLargeArg \/ CallFunction

SpecArgs == InitArgs /\ [][NextArgs]_vars

----------------------------------------------------------------------------
(* Reference definitions for the calls *)

Called == callee # "none"

\* C18: calculateStatistics, analyzeFramePacing, runPairedTTest,
\* runMannWhitneyTest, runKolmogorovSmirnovTest, runVarianceTest,
\* runFramePacingTest and bootstrapConfidenceInterval leave the contents, the
\* length and the order of the elements of a sample array passed to them as
\* they were.
C18_SamplesNotMutated ==
  Called => arrays[1] = argA /\ arrays[2] = argB

\* C18 witness: a sample that is not in ascending order was passed, the
\* function sorted a copy of it, and the sample is as it was
C18_Witness ==
  /\ Called
  /\ callee = "runMannWhitneyTest"
  /\ SortAsc(argA) # argA
  /\ \E o \in 3..Len(arrays) : arrays[o] = SortAsc(argA)
  /\ arrays[1] = argA

\* C18 second witness: the frame-pacing test with its bootstrap and
\* stability helpers on two captures of ten frames
C18_WitnessNested ==
  /\ Called
  /\ callee = "runFramePacingTest"
  /\ argA = TenFrames
  /\ argB = TenWithSpike
  /\ Len(arrays) > 20

\* C18 third witness: the K-S test on a capture it sub-samples
C18_WitnessSampled ==
  /\ Called
  /\ callee = "runKolmogorovSmirnovTest"
  /\ Len(argA) > samplingThreshold
  /\ Len(argB) > 0
  /\ \E o \in 3..Len(arrays) : Len(arrays[o]) = sampleSize

----------------------------------------------------------------------------
(* Reference definitions for the ranks of runMannWhitneyTest *)

\* the Mann-Whitney test has run on two non-empty samples
MwRun == mw \notin {NoResult, Null}

\* the values of both samples
Pool == sampleA \o sampleB

\* t^3 - t for the tie group of value v, 0 for a value that occurs once
TieTerm ==
  [v \in Range(Pool) |->
     LET t == CountEqual(Pool, v)
     IN  IF t > 1 THEN t * t * t - t ELSE 0]

\* C20: every value gets the average of the ranks its tie group occupies in
\* the merged ascending order of both samples; rankSumA + rankSumB =
\* N (N + 1) / 2; U1 = rankSumA - n1 (n1 + 1) / 2 and U2 = rankSumB -
\* n2 (n2 + 1) / 2 add up to n1 n2; tieCorrection is the sum of (t^3 - t) / 12
\* over the tie groups of size t > 1.
C20_AverageRanks ==
  MwRun =>
    LET r  == rankSums(sampleA, sampleB)
        n1 == Len(sampleA)
        n2 == Len(sampleB)
        N  == n1 + n2
    IN  /\ Len(r.combined) = N
        /\ Len(r.ranks) = N
        /\ \A i \in 1..(N - 1) : r.combined[i].value <= r.combined[i + 1].value
        /\ \A v \in Range(Pool) :
              /\ Cardinality({i \in 1..N : r.combined[i].value = v}) = CountEqual(Pool, v)
              /\ Cardinality({i \in 1..N : r.combined[i].value = v
                                            /\ r.combined[i].group = "a"})
                   = CountEqual(sampleA, v)
        /\ \A i \in 1..N : r.ranks[i] = PooledRank(r.combined[i].value)
        /\ r.rankSumA = RankTotal(sampleA, 1)
        /\ r.rankSumB = RankTotal(sampleB, 1)
        /\ RAdd(r.rankSumA, r.rankSumB) = Norm(N * (N + 1), 2)
        /\ r.U1 = RSub(r.rankSumA, Norm(n1 * (n1 + 1), 2))
        /\ r.U2 = RSub(r.rankSumB, Norm(n2 * (n2 + 1), 2))
        /\ RAdd(r.U1, r.U2) = R(n1 * n2)
        /\ r.tieCorrection = Norm(SetSum(Range(Pool), TieTerm), 12)
        /\ mw.U = RMin(r.U1, r.U2)
        /\ mw.clEffect = RMul(RDiv(r.U1, R(n1 * n2)), R(100))

\* C20 witness: a value of one sample tied with a value of the other, so that
\* the rank sums are not whole numbers and the tie correction is not 0
C20_Witness ==
  /\ MwRun
  /\ sampleA = <<1, 2>>
  /\ sampleB = <<2>>
  /\ rankSums(sampleA, sampleB).ranks = <<R(1), <<5, 2>>, <<5, 2>>>>
  /\ rankSums(sampleA, sampleB).rankSumA = <<7, 2>>
  /\ rankSums(sampleA, sampleB).tieCorrection = <<1, 2>>

\* C20 second witness: a tie group of three values and one of two
C20_WitnessTwoGroups ==
  /\ MwRun
  /\ Len(sampleA) = 3
  /\ Len(sampleB) = 2
  /\ rankSums(sampleA, sampleB).tieCorrection = <<5, 2>>

----------------------------------------------------------------------------
(* Reference definitions for the supremum of the K-S test.  The empirical   *)
(* distribution functions are right-continuous step functions that change   *)
(* only at sample values, and the samples are integers: over the reals they *)
(* take the values they take at the integers from below the smallest value  *)
(* to the largest.                                                          *)

\* the fraction of sample S that is <= x, by counting
FractionAtMost(S, x) == Norm(Cardinality({i \in 1..Len(S) : S[i] <= x}), Len(S))

\* |F_A(x) - F_B(x)| for two samples A and B
EcdfGapOf(A, B, x) == RAbs(RSub(FractionAtMost(A, x), FractionAtMost(B, x)))

\* |F_A(x) - F_B(x)| for the two samples of the test
EcdfGap(x) == EcdfGapOf(sampleA, sampleB, x)

\* one point of every interval on which both distribution functions are constant
ProbePoints == 0..4

\* the test has run on two non-empty samples it did not sub-sample
KsRunInFull ==
  /\ KsRun
  /\ Len(sampleA) <= samplingThreshold
  /\ Len(sampleB) <= samplingThreshold

\* D is the largest gap between the two distribution functions
DIsSupremum ==
  /\ \A x \in ProbePoints : RLe(EcdfGap(x), ks.D)
  /\ \E x \in ProbePoints : EcdfGap(x) = ks.D

\* C21: for all non-empty samples below the sub-sampling threshold D is the
\* maximum over all x of |F_A(x) - F_B(x)|, and maxDiffValue is a value of
\* one of the samples at which that maximum is attained.
C21_SupremumAtSampleValue ==
  KsRunInFull =>
     /\ DIsSupremum
     /\ ks.maxDiffValue \in Range(sampleA) \cup Range(sampleB)
     /\ EcdfGap(ks.maxDiffValue) = ks.D

\* C21 as the code has it: D is the maximum; maxDiffValue is a sample value
\* where it is attained when D > 0, and the initial 0 when the two
\* distribution functions are equal
C21_SupremumAtValueOrZero ==
  KsRunInFull =>
     /\ DIsSupremum
     /\ EcdfGap(ks.maxDiffValue) = ks.D
     /\ IF RGt(ks.D, R(0))
        THEN ks.maxDiffValue \in Range(sampleA) \cup Range(sampleB)
        ELSE ks.maxDiffValue = 0

----------------------------------------------------------------------------
(* Reference definitions for the sub-sampling of the K-S test *)

\* the 0-based indices 0, step, 2 step, ... of the systematic sample of n
\* values: at most sampleSize of them, all below n
StrideIndices(n) ==
  LET step == n \div sampleSize
  IN  {i * step : i \in 0..(sampleSize - 1)} \cap 0..(n - 1)

\* the values of s at the 0-based indices 0, step, 2 step, ... that are
\* among indices, in that order
ValuesAt(s, indices) ==
  LET step == Len(s) \div sampleSize
      count == Cardinality(indices)
  IN  SubSeq([k \in 1..count |-> s[(k - 1) * step + 1]], 1, count)

\* the sample D is to be computed from
SampleUsed(s) ==
  IF Len(s) > samplingThreshold THEN ValuesAt(s, StrideIndices(Len(s))) ELSE s

\* D is the largest gap between the distribution functions of the samples used
DOfSamplesUsed ==
  LET usedA == SampleUsed(sampleA)
      usedB == SampleUsed(sampleB)
  IN  /\ \A x \in ProbePoints : RLe(EcdfGapOf(usedA, usedB, x), ks.D)
      /\ \E x \in ProbePoints : EcdfGapOf(usedA, usedB, x) = ks.D
      /\ ks.n1 = Len(usedA)
      /\ ks.n2 = Len(usedB)
      /\ Len(usedA) <= IF Len(sampleA) > samplingThreshold THEN sampleSize ELSE Len(sampleA)

\* the sampling is reported exactly when a sample has more than 10000 values
SamplingReported ==
  ks.samplingNote <=> (Len(sampleA) > samplingThreshold \/ Len(sampleB) > samplingThreshold)

\* C22: a sample of more than 10000 values is replaced by the systematic
\* sample at indices 0, step, 2 step, ... (step = floor(n / 5000)), a smaller
\* one is used in full, the sampling is reported exactly when it happened,
\* and z and the returned n1 and n2 come from the sizes of the samples used.
C22_SizesOfSamplesUsed ==
  KsRun =>
     /\ DOfSamplesUsed
     /\ SamplingReported
     /\ ks.pValue.z.cSquare = Norm(ks.n1 * ks.n2, ks.n1 + ks.n2)

\* C22 as the code has it: z comes from the sizes of the samples given
C22_ZOfSamplesGiven ==
  KsRun =>
     /\ DOfSamplesUsed
     /\ SamplingReported
     /\ ks.pValue.z.cSquare = Norm(Len(sampleA) * Len(sampleB), Len(sampleA) + Len(sampleB))

----------------------------------------------------------------------------
(* Reference definitions for the variance test *)

\* runVarianceTest was called on the two datasets
VarianceCalled == report # NoResult /\ report.call = "runVarianceTest"

\* sum of s[i]^k over the first i values of s, k = 1 or 2
RECURSIVE PowerSum(_, _, _)
PowerSum(s, k, i) ==
  IF i = 0 THEN 0
  ELSE (IF k = 1 THEN s[i] ELSE s[i] * s[i]) + PowerSum(s, k, i - 1)

\* the sample variance of s as (sum of squares - (sum)^2 / n) / (n - 1)
VarianceOf(s) ==
  LET n == Len(s)
  IN  RDiv(RSub(R(PowerSum(s, 2, n)), Norm(PowerSum(s, 1, n) * PowerSum(s, 1, n), n)),
           R(n - 1))

\* the outcome the variance test is to have for variances vA and vB
VarianceOutcome(vA, vB) ==
  LET r == report.out.result
      w == report.out.written
  IN  /\ r # Undefined
      /\ r.F = RDiv(RMax(vA, vB), RMin(vA, vB))
      /\ RLe(R(1), r.F)
      /\ r.effectSize.ln = r.F
      /\ RGt(vA, vB) => /\ r.largerDataset = "A"
                        /\ w.df1 = Len(dataA) - 1
                        /\ w.df2 = Len(dataB) - 1
      /\ RGt(vB, vA) => /\ r.largerDataset = "B"
                        /\ w.df1 = Len(dataB) - 1
                        /\ w.df2 = Len(dataA) - 1

\* C23: runVarianceTest returns no result when a sample has fewer than 2
\* values; otherwise F is the larger variance over the smaller, F >= 1 and
\* ln(F) >= 0, the numerator degrees of freedom are those of the sample with
\* the larger variance and largerDataset names that sample.
C23_VarianceRatioAtLeastOne ==
  VarianceCalled =>
     IF Len(dataA) < 2 \/ Len(dataB) < 2
     THEN report.out.result = Undefined
     ELSE VarianceOutcome(VarianceOf(dataA), VarianceOf(dataB))

\* C23 as the code has it: with both variances 0 the ratio is 0 / 0
C23_VarianceRatioUnlessBothZero ==
  VarianceCalled =>
     IF Len(dataA) < 2 \/ Len(dataB) < 2
     THEN report.out.result = Undefined
     ELSE IF VarianceOf(dataA) = R(0) /\ VarianceOf(dataB) = R(0)
          THEN /\ IsNaN(report.out.result.F)
               /\ report.out.result.largerDataset = "B"
          ELSE VarianceOutcome(VarianceOf(dataA), VarianceOf(dataB))

----------------------------------------------------------------------------
(* Reference definitions for the interpretation of the frame-pacing test *)

\* the frame-pacing test was run by runStatisticalTest
PacingInterpreted == SuiteRan /\ testType = "framepacing"

Improvements == {"significant improvement", "moderate improvement", "slight improvement"}

\* the label is that of the band of |diff|
LabelOfBand(diff, label) ==
  LET size == RAbs(diff)
  IN  /\ RLt(size, R(2)) => label = "negligible"
      /\ (RLe(R(2), size) /\ RLt(size, R(5))) => label = "small"
      /\ (RLe(R(5), size) /\ RLt(size, R(10))) => label = "medium"
      /\ RLe(R(10), size) => label = "large"

\* C24: interpretFramePacingResult labels |consistencyDiff| negligible below
\* 2, small below 5, medium below 10 and large from 10 on, and its wording
\* agrees with the label: 'negligible change' exactly when the label is
\* negligible, otherwise an improvement for diff > 0 and a degradation for
\* diff < 0.
C24_WordingAgreesWithLabel ==
  PacingInterpreted =>
     LET diff == report.out.result.consistencyDiff
         said == report.out.interpretation
     IN  /\ LabelOfBand(diff, said.effectSizeText)
         /\ (said.assessmentText = "negligible change") <=> (said.effectSizeText = "negligible")
         /\ (said.effectSizeText # "negligible" /\ RGt(diff, R(0)))
               => said.assessmentText \in Improvements
         /\ (said.effectSizeText # "negligible" /\ RLt(diff, R(0)))
               => said.assessmentText = "degradation"

\* C24 as the code has it: between -2 and 2 the wording follows the sign of
\* diff
C24_WordingOfSignedBands ==
  PacingInterpreted =>
     LET diff == report.out.result.consistencyDiff
         said == report.out.interpretation
     IN  /\ LabelOfBand(diff, said.effectSizeText)
         /\ (said.assessmentText = "negligible change")
               <=> (RGt(diff, R(-2)) /\ RLe(diff, R(0)))
         /\ RGt(diff, R(0)) <=> said.assessmentText \in Improvements
         /\ (said.assessmentText = "degradation") <=> RLe(diff, R(-2))

----------------------------------------------------------------------------
(* handleFileUpload (dataManager.js).  Every file gets a FileReader whose   *)
(* onload or onerror handler runs once, in any order across the files.  A   *)
(* file is held as the outcome its reader will have: "rows" (parsed to at   *)
(* least one row), "empty" (parsed to no row), "throws" (the parser throws) *)
(* or "unreadable" (onerror).                                               *)

\* most files of one upload
MaxFiles == 3

Outcomes == {"rows", "empty", "throws", "unreadable"}

NotUpload == <<statsVars, metricVars, pacingVars, testVars, suiteVars, rowVars, bootVars, argVars, doubleVars, chartVars>>

\* the files whose reader has not completed
Pending == (1..Len(files)) \ Range(completed)

\* the change event of the file input: handleFileUpload(e) with k >= 1 files
HandleFileUpload ==
  /\ files = <<>>
  /\ \E k \in 1..MaxFiles : \E chosen \in [1..k -> Outcomes] : files' = chosen
  /\ successCount' = 0
  /\ errorCount' = 0
  /\ UNCHANGED <<completed, allDatasets, refreshCalls, NotUpload>>

\* if (successCount + errorCount === files.length) refreshDatasetLists()
refreshIfAllProcessed(success, errors, toCome) ==
  IF success + errors = Len(files) THEN <<toCome>> ELSE <<>>

\* reader.onload of file i
ReaderOnLoad ==
  \E i \in Pending :
     /\ files[i] # "unreadable"
     /\ completed' = Append(completed, i)
     /\ IF files[i] = "rows"
        THEN /\ allDatasets' = Append(allDatasets, i)
             /\ successCount' = successCount + 1
             /\ errorCount' = errorCount
             /\ refreshCalls' = refreshCalls \o
                  refreshIfAllProcessed(successCount + 1, errorCount,
                                        Cardinality(Pending \ {i}))
        ELSE /\ errorCount' = errorCount + 1
             /\ UNCHANGED <<allDatasets, successCount, refreshCalls>>
     /\ UNCHANGED <<files, NotUpload>>

\* reader.onerror of file i
ReaderOnError ==
  \E i \in Pending :
     /\ files[i] = "unreadable"
     /\ completed' = Append(completed, i)
     /\ errorCount' = errorCount + 1
     /\ UNCHANGED <<files, allDatasets, successCount, refreshCalls, NotUpload>>

InitUpload == IdleStats /\ IdleMetric /\ IdlePacing /\ IdleTests /\ IdleSuite /\ IdleRow /\ IdleBoot /\ IdleArgs /\ IdleUpload /\ IdleDoubles /\ IdleChart

NextUpload ==
  \/ HandleFileUpload
  \/ ReaderOnLoad
  \/ ReaderOnError

SpecUpload == InitUpload /\ [][NextUpload]_vars

----------------------------------------------------------------------------
(* Reference definitions for handleFileUpload *)

\* every reader of the upload has completed
AllCompleted == files # <<>> /\ Len(completed) = Len(files)

\* the files that parse to rows
WithRows == {i \in 1..Len(files) : files[i] = "rows"}

\* C26: once all k readers have completed, in whatever order and with
\* whatever outcomes, refreshDatasetLists has been called exactly once if a
\* file produced a dataset, never before all files were processed, and
\* window.allDatasets has grown by the number of files that produced rows.
C26_RefreshedOnceWhenDone ==
  /\ \A c \in 1..Len(refreshCalls) : refreshCalls[c] = 0
  /\ AllCompleted =>
       /\ WithRows # {} => Len(refreshCalls) = 1
       /\ Len(allDatasets) = Cardinality(WithRows)

\* C26 as the code has it: the lists are refreshed, once, only if the reader
\* that completed last produced rows
C26_RefreshedIfLastHasRows ==
  /\ \A c \in 1..Len(refreshCalls) : refreshCalls[c] = 0
  /\ Len(refreshCalls) <= 1
  /\ AllCompleted =>
       /\ Len(refreshCalls) = 1 <=> files[completed[Len(completed)]] = "rows"
       /\ Len(allDatasets) = Cardinality(WithRows)
       /\ Range(allDatasets) = WithRows

----------------------------------------------------------------------------
(* Reference definitions for the sign of z of runMannWhitneyTest *)

\* the U statistic of sample s: the sum of its pooled mid-ranks less
\* n (n + 1) / 2
UOf(s) == RSub(RankTotal(s, 1), Norm(Len(s) * (Len(s) + 1), 2))

\* n1 n2 / 2
HalfProduct == Norm(Len(sampleA) * Len(sampleB), 2)

\* U - meanU - 0.5 sign(U - meanU) for the returned U
CorrectedNumerator ==
  LET excess == RSub(mw.U, HalfProduct)
  IN  RSub(excess, Norm(SignInt(excess[1]), 2))

\* C27: for all non-empty samples U = min(U1, U2) <= n1 n2 / 2, the
\* continuity-corrected numerator is never positive and the returned z and
\* effectSize are never greater than 0, whichever sample has the larger values.
C27_ZNeverPositive ==
  MwRun =>
     /\ mw.U = RMin(UOf(sampleA), UOf(sampleB))
     /\ RLe(mw.U, HalfProduct)
     /\ RLe(CorrectedNumerator, R(0))
     /\ mw.z.sign = (IF IsNaN(mw.z.square) THEN 0 ELSE SignInt(CorrectedNumerator[1]))
     /\ mw.z.sign <= 0
     /\ mw.effectSize.sign <= 0

\* C27 witness: every value of a above every value of b, z below 0
C27_Witness ==
  /\ MwRun
  /\ Len(sampleA) >= 2
  /\ AllBelow(sampleB, sampleA)
  /\ mw.higherGroup = "A"
  /\ mw.z.sign = -1
  /\ mw.effectSize.sign = -1

\* C27 second witness: every value of a below every value of b, z below 0
\* all the same
C27_WitnessLower ==
  /\ MwRun
  /\ Len(sampleB) >= 2
  /\ AllBelow(sampleA, sampleB)
  /\ mw.higherGroup = "B"
  /\ mw.z.sign = -1
  /\ mw.effectSize.sign = -1

----------------------------------------------------------------------------
(* IEEE-754 double arithmetic.  Frame times are rarely whole numbers, and a *)
(* sum of values such as 6.9 is rounded at every addition.  A positive      *)
(* double is held as [m |-> its 53-bit significand, most significant bit    *)
(* first, e |-> the exponent of its last bit]: the value is m * 2^e.  0 is  *)
(* [m |-> <<>>, e |-> 0].  Only positive normal numbers and 0 occur, and    *)
(* every operation rounds to nearest, ties to even, as JavaScript does.     *)

SignificandBits == 53

\* the four bits of a hexadecimal digit
BitsOfHex(digit) ==
  <<(digit \div 8) % 2, (digit \div 4) % 2, (digit \div 2) % 2, digit % 2>>

\* the double 0x1.<digits>p<exponent>, with 13 hexadecimal digits
HexDouble(digits, exponent) ==
  [m |-> <<1>> \o SubSeq([i \in 1..(4 * Len(digits)) |->
                             BitsOfHex(digits[((i - 1) \div 4) + 1])[((i - 1) % 4) + 1]],
                         1, 4 * Len(digits)),
   e |-> exponent - 4 * Len(digits)]

DoubleZero == [m |-> <<>>, e |-> 0]

\* k zero bits
ZeroBits(k) == SubSeq([i \in 1..k |-> 0], 1, k)

\* bits without its leading zeros
StripLeadingZeros(bits) ==
  IF \A i \in 1..Len(bits) : bits[i] = 0 THEN <<>>
  ELSE SubSeq(bits, CHOOSE i \in 1..Len(bits) : bits[i] = 1 /\ \A j \in 1..(i - 1) : bits[j] = 0,
              Len(bits))

\* the carry into position i of x + y, for bit strings of one length: a
\* position below i where both have a 1, with one 1 at every position between
CarryInto(x, y, i) ==
  \E j \in (i + 1)..Len(x) :
     /\ x[j] + y[j] = 2
     /\ \A k \in (i + 1)..(j - 1) : x[k] + y[k] = 1

\* x + y for bit strings of one length: the sum has one bit more
AddAligned(x, y) ==
  SubSeq([i \in 1..(Len(x) + 1) |->
            IF i = 1 THEN (IF CarryInto(x, y, 0) THEN 1 ELSE 0)
            ELSE (x[i - 1] + y[i - 1] + (IF CarryInto(x, y, i - 1) THEN 1 ELSE 0)) % 2],
         1, Len(x) + 1)

\* bits with zeros in front, to the given width
Widened(bits, width) == ZeroBits(width - Len(bits)) \o bits

\* x + y for bit strings of any lengths
AddBits(x, y) ==
  IF Len(x) > Len(y) THEN AddAligned(x, Widened(y, Len(x)))
  ELSE AddAligned(Widened(x, Len(y)), y)

\* the first 53 bits of exact, raised by one where the bits after them, and
\* what lies below those (sticky), are more than half of the last place, or
\* half with the last bit odd
RoundedSignificand(exact, sticky) ==
  LET kept    == SubSeq(exact, 1, SignificandBits)
      below   == sticky \/ \E i \in (SignificandBits + 2)..Len(exact) : exact[i] = 1
      roundUp == exact[SignificandBits + 1] = 1 /\ (below \/ kept[SignificandBits] = 1)
  IN  IF roundUp THEN StripLeadingZeros(AddBits(kept, <<1>>)) ELSE kept

\* the double of a significand of 53 bits, or of 54 after a carry
Renormalised(significand, exponent) ==
  IF Len(significand) > SignificandBits
  THEN [m |-> SubSeq(significand, 1, SignificandBits), e |-> exponent + 1]
  ELSE [m |-> significand, e |-> exponent]

\* the double nearest to exact * 2^exponent, for exact without leading zeros
NearestDouble(exact, exponent, sticky) ==
  IF exact = <<>> THEN DoubleZero
  ELSE IF Len(exact) <= SignificandBits
  THEN [m |-> exact \o ZeroBits(SignificandBits - Len(exact)),
        e |-> exponent - (SignificandBits - Len(exact))]
  ELSE Renormalised(RoundedSignificand(exact, sticky),
                    exponent + (Len(exact) - SignificandBits))

\* the integer bits * 2^exponent, plus a non-zero part below its last bit if
\* sticky, rounded to a double
RoundToDouble(bits, exponent, sticky) ==
  NearestDouble(StripLeadingZeros(bits), exponent, sticky)

\* the smaller of two exponents
LowerExponent(x, y) == IF x.e < y.e THEN x.e ELSE y.e

\* x + y for two doubles other than 0, from the exponent of the sum on
AddedAt(x, y, exponent) ==
  RoundToDouble(AddBits(x.m \o ZeroBits(x.e - exponent), y.m \o ZeroBits(y.e - exponent)),
                exponent, FALSE)

\* x + y in doubles
DoubleAdd(x, y) ==
  IF x.m = <<>> THEN y
  ELSE IF y.m = <<>> THEN x
  ELSE AddedAt(x, y, LowerExponent(x, y))

\* the bits of a long division are taken ten at a time, with these weights
LimbWeights == <<512, 256, 128, 64, 32, 16, 8, 4, 2, 1>>

LimbBits == Len(LimbWeights)

\* the number of the k-th group of ten bits
LimbOf(bits, k) ==
  LET b == SubSeq(bits, LimbBits * (k - 1) + 1, LimbBits * k)
      w == LimbWeights
  IN  b[1] * w[1] + b[2] * w[2] + b[3] * w[3] + b[4] * w[4] + b[5] * w[5]
        + b[6] * w[6] + b[7] * w[7] + b[8] * w[8] + b[9] * w[9] + b[10] * w[10]

\* the ten bits of a number below 1024
BitsOfLimb(limb) == SubSeq([j \in 1..LimbBits |-> (limb \div LimbWeights[j]) % 2], 1, LimbBits)

\* the long division of bits (a multiple of ten of them) by the whole number
\* n, from the k-th group on with the remainder so far: the quotient bits and
\* the last remainder
RECURSIVE DivideFrom(_, _, _, _)
DivideFrom(bits, n, k, remainder) ==
  IF LimbBits * k > Len(bits) THEN [quotient |-> <<>>, remainder |-> remainder]
  ELSE LET running == 2 * LimbWeights[1] * remainder + LimbOf(bits, k)
           rest    == DivideFrom(bits, n, k + 1, running % n)
       IN  [quotient  |-> BitsOfLimb(running \div n) \o rest.quotient,
            remainder |-> rest.remainder]

\* the bits of the dividend, seven groups: the significand and, after it,
\* guard bits that leave the quotient by a divisor below 2^15 more than 53 bits
DividendBits == 7 * LimbBits

GuardBits == DividendBits - SignificandBits

\* the rounded quotient, from the long division
RoundedQuotient(divided, exponent) ==
  RoundToDouble(divided.quotient, exponent, divided.remainder # 0)

\* x / n in doubles, for a whole number n from 1 to 2^15
DoubleDivide(x, n) ==
  IF x.m = <<>> THEN DoubleZero
  ELSE RoundedQuotient(DivideFrom(Widened(x.m \o ZeroBits(GuardBits), DividendBits), n, 1, 0),
                       x.e - GuardBits)

\* x < y for doubles
DoubleLess(x, y) ==
  IF y.m = <<>> THEN FALSE
  ELSE IF x.m = <<>> THEN TRUE
  ELSE IF x.e # y.e THEN x.e < y.e
  ELSE \E i \in 1..SignificandBits :
          /\ x.m[i] < y.m[i]
          /\ \A j \in 1..(i - 1) : x.m[j] = y.m[j]

\* x <= y for doubles
DoubleAtMost(x, y) == ~DoubleLess(y, x)

----------------------------------------------------------------------------
(* calculateStatistics on doubles.  The frame times of a capture are        *)
(* doubles such as 6.9, and sum / n is rounded twice: in the sum and in the *)
(* division.  The harmonic mean of the metric named 'FPS' divides by a      *)
(* double and is left out here: the names are the other ones.               *)

\* frame times in ms as a capture gives them: 0.7, 6.9, 16.7 and 33.3
FrameTimes ==
  { HexDouble(<<6, 6, 6, 6, 6, 6, 6, 6, 6, 6, 6, 6, 6>>, -1),
    HexDouble(<<11, 9, 9, 9, 9, 9, 9, 9, 9, 9, 9, 9, 10>>, 2),
    HexDouble(<<0, 11, 3, 3, 3, 3, 3, 3, 3, 3, 3, 3, 3>>, 4),
    HexDouble(<<0, 10, 6, 6, 6, 6, 6, 6, 6, 6, 6, 6, 6>>, 5) }

\* longest sample of doubles
MaxMeasured == 3

\* no metric name, a time-like name and an FPS-like name
MeasuredNames ==
  { <<>>,
    <<"F", "r", "a", "m", "e", "T", "i", "m", "e">>,
    <<"A", "v", "g", "F", "P", "S">> }

\* the 30 and the 20 of the heuristic
Thirty == HexDouble(<<14, 0, 0, 0, 0, 0, 0, 0, 0, 0, 0, 0, 0>>, 4)

Twenty == HexDouble(<<4, 0, 0, 0, 0, 0, 0, 0, 0, 0, 0, 0, 0>>, 4)

\* s[i] comes before s[j] when sorted with (a, b) => a - b
SortsBefore(s, i, j) ==
  DoubleLess(s[i], s[j]) \/ (~DoubleLess(s[j], s[i]) /\ i < j)

\* [...arr].sort((a, b) => a - b)
SortedDoubles(s) ==
  SubSeq([k \in 1..Len(s) |->
            s[CHOOSE i \in 1..Len(s) :
                 Cardinality({j \in 1..Len(s) : SortsBefore(s, j, i)}) + 1 = k]],
         1, Len(s))

\* reduce((a, b) => a + b, 0) over the first i values of s
RECURSIVE SumOfDoubles(_, _)
SumOfDoubles(s, i) ==
  IF i = 0 THEN DoubleZero ELSE DoubleAdd(SumOfDoubles(s, i - 1), s[i])

\* sum / n
meanOfDoubles(sorted) == DoubleDivide(SumOfDoubles(sorted, Len(sorted)), Len(sorted))

\* the isFpsMetric flag
isFpsMetricOfDoubles(name, avg, minVal) ==
  \/ toUpperCase(name) = <<"F", "P", "S">>
  \/ includes(toLowerCase(name), <<"f", "p", "s">>)
  \/ (name = <<>> /\ DoubleLess(Thirty, avg) /\ DoubleLess(Twenty, minVal))

\* percentileNearestRank(sortedAsc, p) for a sample that is not empty.  With
\* at most MaxMeasured + 1 values (p / 100) * n is far from a whole number
\* and its rounding does not change Math.ceil.
percentileOfDoubles(sortedAsc, p) ==
  sortedAsc[MaxInt(0, MinInt(CeilInt(RMul(RDiv(p, R(100)), R(Len(sortedAsc)))) - 1,
                             Len(sortedAsc) - 1)) + 1]

\* slice(0, c).reduce((s, v) => s + v, 0) / c, of the head of the sorted
\* values for FPS and of their tail, largest first, for frame times
lowOfDoubles(sorted, c, isFps) ==
  DoubleDivide(SumOfDoubles(SliceHead(IF isFps THEN sorted ELSE Reverse(sorted), c),
                            MinInt(c, Len(sorted))), c)

\* the record returned, from the sorted values, the mean and the flag
aggregatesOf(sorted, n, avg, isFps) ==
  [max    |-> sorted[n],
   min    |-> sorted[1],
   avg    |-> avg,
   p1     |-> percentileOfDoubles(sorted, percentileMark(isFps, R(1), R(99))),
   p01    |-> percentileOfDoubles(sorted, percentileMark(isFps, <<1, 10>>, <<999, 10>>)),
   p001   |-> percentileOfDoubles(sorted, percentileMark(isFps, <<1, 100>>, <<9999, 100>>)),
   low1   |-> lowOfDoubles(sorted, lowCount(n, <<1, 100>>), isFps),
   low01  |-> lowOfDoubles(sorted, lowCount(n, <<1, 1000>>), isFps),
   low001 |-> lowOfDoubles(sorted, lowCount(n, <<1, 10000>>), isFps)]

\* the record, with the flag taken from the name, the mean and the minimum
aggregatesWithMean(sorted, name, avg) ==
  aggregatesOf(sorted, Len(sorted), avg, isFpsMetricOfDoubles(name, avg, sorted[1]))

\* the record, from the sorted values
aggregatesOfSorted(sorted, name) ==
  aggregatesWithMean(sorted, name, meanOfDoubles(sorted))

\* calculateStatistics(arr, metricName) on doubles, for a name other than
\* 'FPS'.  stdev is a square root and is not part of the record.
calculateStatisticsOfDoubles(a, name) ==
  IF Len(a) = 0
  THEN [max |-> NaN, min |-> NaN, avg |-> NaN,
        p1 |-> NaN, p01 |-> NaN, p001 |-> NaN,
        low1 |-> NaN, low01 |-> NaN, low001 |-> NaN]
  ELSE aggregatesOfSorted(SortedDoubles(a), name)

NotDoubles == <<statsVars, metricVars, pacingVars, testVars, suiteVars, rowVars, bootVars, argVars, uploadVars, chartVars>>

InitDoubles == IdleStats /\ IdleMetric /\ IdlePacing /\ IdleTests /\ IdleSuite /\ IdleRow /\ IdleBoot /\ IdleArgs /\ IdleUpload /\ IdleDoubles /\ IdleChart

\* one more frame of the capture joins the sample
MeasureFrame ==
  /\ Len(measured) < MaxMeasured
  /\ \E v \in FrameTimes : measured' = Append(measured, v)
  /\ aggregates' = NoResult
  /\ UNCHANGED <<measuredAs, NotDoubles>>

\* the metric of the sample is selected
NameMeasured ==
  /\ \E m \in MeasuredNames : measuredAs' = m
  /\ aggregates' = NoResult
  /\ UNCHANGED <<measured, NotDoubles>>

\* aggregates = calculateStatistics(measured, measuredAs)
CalculateMeasured ==
  /\ aggregates = NoResult
  /\ aggregates' = calculateStatisticsOfDoubles(measured, measuredAs)
  /\ UNCHANGED <<measured, measuredAs, NotDoubles>>

NextDoubles == MeasureFrame \/ NameMeasured \/ CalculateMeasured

SpecDoubles == InitDoubles /\ [][NextDoubles]_vars

----------------------------------------------------------------------------
\* the statistics of a sample of doubles that is not empty have been computed
Measured == aggregates # NoResult /\ Len(measured) > 0

\* the sample counts as FPS: by its name or, unnamed, by its values
MeasuredFpsLike ==
  \/ includes(toLowerCase(measuredAs), <<"f", "p", "s">>)
  \/ /\ measuredAs = <<>>
     /\ DoubleLess(Thirty, aggregates.avg)
     /\ \A i \in 1..Len(measured) : DoubleLess(Twenty, measured[i])

\* C28: for every non-empty sample min <= avg <= low1 <= low01 <= low001 <=
\* max when the metric is time-like, and min <= low001 <= low01 <= low1 <= max
\* when it is FPS-like.
C28_AggregatesOrdered ==
  Measured =>
     IF MeasuredFpsLike
     THEN /\ DoubleAtMost(aggregates.min, aggregates.low001)
          /\ DoubleAtMost(aggregates.low001, aggregates.low01)
          /\ DoubleAtMost(aggregates.low01, aggregates.low1)
          /\ DoubleAtMost(aggregates.low1, aggregates.max)
     ELSE /\ DoubleAtMost(aggregates.min, aggregates.avg)
          /\ DoubleAtMost(aggregates.avg, aggregates.low1)
          /\ DoubleAtMost(aggregates.low1, aggregates.low01)
          /\ DoubleAtMost(aggregates.low01, aggregates.low001)
          /\ DoubleAtMost(aggregates.low001, aggregates.max)

\* C28, what holds on doubles: the lows are ordered and lie between the
\* minimum and the maximum, for both kinds of metric; avg is left out
C28_LowsOrderedInDoubles ==
  Measured =>
     IF MeasuredFpsLike
     THEN /\ DoubleAtMost(aggregates.min, aggregates.low001)
          /\ DoubleAtMost(aggregates.low001, aggregates.low01)
          /\ DoubleAtMost(aggregates.low01, aggregates.low1)
          /\ DoubleAtMost(aggregates.low1, aggregates.max)
     ELSE /\ DoubleAtMost(aggregates.min, aggregates.low1)
          /\ DoubleAtMost(aggregates.low1, aggregates.low01)
          /\ DoubleAtMost(aggregates.low01, aggregates.low001)
          /\ DoubleAtMost(aggregates.low001, aggregates.max)

\* C28, the two ways avg leaves the range of a time-like sample: above the
\* maximum (6.9 three times) and below the minimum (0.7 three times)
C28_MeanAboveMaximum ==
  Measured /\ ~MeasuredFpsLike /\ DoubleLess(aggregates.max, aggregates.avg)

C28_MeanBelowMinimum ==
  Measured /\ ~MeasuredFpsLike /\ DoubleLess(aggregates.avg, aggregates.min)

----------------------------------------------------------------------------
(* The datasets of the chart: addToChart, moveDataset, removeDataset and    *)
(* clearChart (chartManager.js).  moveDataset and removeDataset are called  *)
(* by the buttons that updateDatasetOrder builds, one set per dataset of    *)
(* the list, rebuilt after every change: their index is one of the list.    *)

\* the options of #chartTypeSelect
ChartTypes == {"line", "scatter", "histogram", "boxplot", "violin", "qqplot"}

\* longest list of chart datasets
MaxChart == 4

\* window.allDatasets: per uploaded dataset, whether any row has a value of
\* the selected metric
HasValues == <<TRUE, FALSE, TRUE>>

\* the selections of #datasetSelect
Selections == {<<>>, <<1>>, <<2>>, <<3>>, <<1, 2>>, <<1, 3>>}

\* a chart dataset: of which uploaded datasets, which part, and the chart
\* type selected when it was built
chartDataset(of, part, chartType) == [of |-> of, part |-> part, addedAs |-> chartType]

\* what the forEach body pushes for one selected dataset
pushedFor(idx, chartType) ==
  IF ~HasValues[idx] THEN <<>>
  ELSE IF chartType \in {"line", "scatter", "histogram"}
  THEN <<chartDataset(<<idx>>, "", chartType)>>
  ELSE IF chartType = "qqplot"
  THEN <<chartDataset(<<idx>>, "Data", chartType), chartDataset(<<idx>>, "Ref Line", chartType)>>
  ELSE <<>>

\* what indices.forEach pushes, from the i-th selected dataset on
RECURSIVE pushedFrom(_, _, _)
pushedFrom(indices, i, chartType) ==
  IF i > Len(indices) THEN <<>>
  ELSE pushedFor(indices[i], chartType) \o pushedFrom(indices, i + 1, chartType)

\* window.chartDatasets after the branch of the chart type
datasetsAfterAdd(list, indices, chartType) ==
  IF chartType = "violin"
  THEN <<chartDataset(indices, "Density", chartType), chartDataset(indices, "Quartiles", chartType)>>
  ELSE IF chartType = "boxplot"
  THEN <<chartDataset(indices, "Quartiles", chartType)>>
  ELSE list \o pushedFrom(indices, 1, chartType)

\* the chart type remembered at every call
typeSelected(list, chartType, current) == chartType

\* window.currentChartType after "if this is the very first dataset"
typeStarted(list, chartType, current) ==
  IF Len(list) = 0 THEN chartType ELSE current

\* "disallow mixing chart types on the same grid"
mixesTypes(list, chartType, current) == Len(list) # 0 /\ chartType # current

\* window.mainChart after renderChart
rendered(list) == IF Len(list) = 0 THEN "destroyed" ELSE "chart"

\* addToChart from the remembered chart type on: [datasets, type, chart]
addWithType(list, indices, chartType, current, chart) ==
  IF mixesTypes(list, chartType, current)
  THEN [datasets |-> list, type |-> current, chart |-> chart]
  ELSE [datasets |-> datasetsAfterAdd(list, indices, chartType),
        type     |-> current,
        chart    |-> IF chart = "null" /\ Len(datasetsAfterAdd(list, indices, chartType)) = 0
                     THEN "null"
                     ELSE rendered(datasetsAfterAdd(list, indices, chartType))]

\* addToChart(): [datasets, type, chart] after the call
addToChart(list, indices, chartType, current, chart) ==
  IF Len(indices) = 0
  THEN [datasets |-> list, type |-> current, chart |-> chart]
  ELSE addWithType(list, indices, chartType, typeStarted(list, chartType, current), chart)

\* list with the values at the 0-based indices i and j exchanged
Swapped(list, i, j) ==
  SubSeq([k \in 1..Len(list) |->
            IF k = i + 1 THEN list[j + 1] ELSE IF k = j + 1 THEN list[i + 1] ELSE list[k]],
         1, Len(list))

\* moveDataset(index, direction): window.chartDatasets after the call
moveDataset(list, index, direction) ==
  IF direction = "up" /\ index = 0 THEN list
  ELSE IF direction = "down" /\ index = Len(list) - 1 THEN list
  ELSE Swapped(list, index, IF direction = "up" THEN index - 1 ELSE index + 1)

\* list.splice(index, 1)
Spliced(list, index) == SubSeq(list, 1, index) \o SubSeq(list, index + 2, Len(list))

\* removeDataset(index): window.chartDatasets after the call
removeDataset(list, index) ==
  IF index < 0 \/ index >= Len(list) THEN list ELSE Spliced(list, index)

NotChart == <<statsVars, metricVars, pacingVars, testVars, suiteVars, rowVars, bootVars, argVars, uploadVars, doubleVars>>

InitChart == IdleStats /\ IdleMetric /\ IdlePacing /\ IdleTests /\ IdleSuite /\ IdleRow /\ IdleBoot /\ IdleArgs /\ IdleUpload /\ IdleDoubles /\ IdleChart

\* a click on #addToChartBtn
AddToChart ==
  \E indices \in Selections, chartType \in ChartTypes :
     LET after == addToChart(chartDatasets, indices, chartType, currentChartType, mainChart)
     IN  /\ Len(after.datasets) <= MaxChart
         /\ chartDatasets' = after.datasets
         /\ currentChartType' = after.type
         /\ mainChart' = after.chart
         /\ lastCall' = [op |-> "addToChart", chartType |-> chartType, index |-> 0, direction |-> ""]
         /\ UNCHANGED NotChart

\* a click on one of the arrows of a dataset of the order list
MoveDataset ==
  \E index \in 0..(Len(chartDatasets) - 1), direction \in {"up", "down"} :
     /\ chartDatasets' = moveDataset(chartDatasets, index, direction)
     /\ lastCall' = [op |-> "moveDataset", chartType |-> "", index |-> index, direction |-> direction]
     /\ UNCHANGED <<currentChartType, mainChart, NotChart>>

\* a click on the cross of a dataset of the order list
RemoveDataset ==
  \E index \in 0..(Len(chartDatasets) - 1) :
     /\ chartDatasets' = removeDataset(chartDatasets, index)
     /\ mainChart' = IF Len(removeDataset(chartDatasets, index)) = 0 THEN "null" ELSE mainChart
     /\ lastCall' = [op |-> "removeDataset", chartType |-> "", index |-> index, direction |-> ""]
     /\ UNCHANGED <<currentChartType, NotChart>>

\* a click on #clearChartBtn
ClearChart ==
  /\ currentChartType' = "null"
  /\ chartDatasets' = <<>>
  /\ mainChart' = "null"
  /\ lastCall' = [op |-> "clearChart", chartType |-> "", index |-> 0, direction |-> ""]
  /\ UNCHANGED NotChart

NextChart == AddToChart \/ MoveDataset \/ RemoveDataset \/ ClearChart

SpecChart == InitChart /\ [][NextChart]_vars

----------------------------------------------------------------------------
\* every dataset of the list was built by an addToChart call with the chart
\* type that is remembered
OfRememberedType ==
  \A i \in 1..Len(chartDatasets) : chartDatasets[i].addedAs = currentChartType

\* how often x is in list
Occurrences(list, x) == Cardinality({i \in 1..Len(list) : list[i] = x})

\* after holds the values of before, each as often
Permutes(before, after) ==
  /\ Len(after) = Len(before)
  /\ \A i \in 1..Len(before) : Occurrences(after, before[i]) = Occurrences(before, before[i])

\* the step is an addToChart call with a chart type other than the one
\* remembered, on a list that is not empty
RejectedAdd ==
  /\ lastCall'.op = "addToChart"
  /\ chartDatasets # <<>>
  /\ lastCall'.chartType # currentChartType

\* the step is a moveDataset call at an end of the list, away from the list
MoveAtEnd ==
  /\ lastCall'.op = "moveDataset"
  /\ \/ lastCall'.direction = "up" /\ lastCall'.index = 0
     \/ lastCall'.direction = "down" /\ lastCall'.index = Len(chartDatasets) - 1

\* C29: after any sequence of addToChart, moveDataset, removeDataset and
\* clearChart calls every dataset of a non-empty window.chartDatasets was
\* added with the chart type in window.currentChartType; an addToChart call
\* with another chart type on a non-empty list leaves both unchanged; and
\* moveDataset only permutes the list, and leaves it as it is at its ends.
C29_OneChartTypePerChart ==
  /\ [](chartDatasets # <<>> => OfRememberedType)
  /\ [][/\ RejectedAdd => UNCHANGED <<chartDatasets, currentChartType>>
        /\ lastCall'.op = "moveDataset" =>
              /\ Permutes(chartDatasets, chartDatasets')
              /\ UNCHANGED currentChartType
        /\ MoveAtEnd => UNCHANGED chartDatasets]_vars

\* C29 witness: an addToChart call with another chart type was refused on a
\* list of two datasets of different uploads, one of which had been moved
C29_Witness ==
  /\ lastCall.op = "addToChart"
  /\ Len(chartDatasets) >= 2
  /\ lastCall.chartType # currentChartType
  /\ chartDatasets[1].of = <<3>>
  /\ chartDatasets[2].of = <<1>>

\* C29 second witness: a dataset was moved, after one was removed from a
\* violin chart, which leaves the box plot of the violin chart
C29_WitnessMoved ==
  /\ lastCall.op = "moveDataset"
  /\ Len(chartDatasets) = 1
  /\ currentChartType = "violin"
  /\ chartDatasets[1].part = "Quartiles"

----------------------------------------------------------------------------
(* More IEEE-754 double arithmetic, for the indexes of                      *)
(* bootstrapConfidenceInterval: x - y, x / 2, n * x and Math.floor.         *)

\* the borrow into position i of x - y, for bit strings of one length: a
\* position below i where y has the 1, with equal bits between
BorrowInto(x, y, i) ==
  \E j \in (i + 1)..Len(x) :
     /\ x[j] < y[j]
     /\ \A k \in (i + 1)..(j - 1) : x[k] = y[k]

\* x - y for bit strings of one length with x >= y
SubtractAligned(x, y) ==
  SubSeq([i \in 1..Len(x) |->
            (2 + x[i] - y[i] - (IF BorrowInto(x, y, i) THEN 1 ELSE 0)) % 2],
         1, Len(x))

\* x - y for two doubles other than 0 with x >= y, from the exponent of the
\* difference on
SubtractedAt(x, y, exponent) ==
  RoundToDouble(SubtractAligned(Widened(x.m \o ZeroBits(x.e - exponent),
                                        Len(y.m) + (y.e - exponent) + Len(x.m) + (x.e - exponent)),
                                Widened(y.m \o ZeroBits(y.e - exponent),
                                        Len(y.m) + (y.e - exponent) + Len(x.m) + (x.e - exponent))),
                exponent, FALSE)

\* x - y in doubles, for x >= y >= 0
DoubleSubtract(x, y) ==
  IF y.m = <<>> THEN x ELSE SubtractedAt(x, y, LowerExponent(x, y))

\* x / 2 in doubles (no underflow for the values met)
DoubleHalf(x) == IF x.m = <<>> THEN x ELSE [m |-> x.m, e |-> x.e - 1]

\* the bits of n times the number of bits, for a whole number n
RECURSIVE TimesBits(_, _)
TimesBits(bits, n) ==
  IF n = 0 THEN <<>>
  ELSE IF n = 1 THEN bits
  ELSE IF n % 2 = 0 THEN TimesBits(bits, n \div 2) \o <<0>>
  ELSE AddBits(TimesBits(bits, n \div 2) \o <<0>>, bits)

\* n * x in doubles, for a whole number n >= 0
DoubleTimes(n, x) ==
  IF x.m = <<>> THEN x ELSE RoundToDouble(TimesBits(x.m, n), x.e, FALSE)

\* the whole number of thirty bits
WholeOfBits(bits) ==
  2 * LimbWeights[1] * (2 * LimbWeights[1] * LimbOf(bits, 1) + LimbOf(bits, 2)) + LimbOf(bits, 3)

\* Math.floor(x) for a double 0 <= x < 2^30
DoubleFloor(x) ==
  IF Len(x.m) + x.e <= 0 THEN 0
  ELSE IF x.e >= 0 THEN WholeOfBits(Widened(x.m \o ZeroBits(x.e), 3 * LimbBits))
  ELSE WholeOfBits(Widened(SubSeq(x.m, 1, Len(x.m) + x.e), 3 * LimbBits))

\* the double 1
DoubleOne == HexDouble(<<0, 0, 0, 0, 0, 0, 0, 0, 0, 0, 0, 0, 0>>, 0)

\* alpha / 2 for alpha = 1 - confidenceLevel
halfAlphaOf(confidenceLevel) == DoubleHalf(DoubleSubtract(DoubleOne, confidenceLevel))

\* Math.floor(iterations * (alpha / 2))
lowerIndexOf(iterations, confidenceLevel) ==
  DoubleFloor(DoubleTimes(iterations, halfAlphaOf(confidenceLevel)))

\* Math.floor(iterations * (1 - alpha / 2))
upperIndexOf(iterations, confidenceLevel) ==
  DoubleFloor(DoubleTimes(iterations, DoubleSubtract(DoubleOne, halfAlphaOf(confidenceLevel))))

----------------------------------------------------------------------------
(* bootstrapConfidenceInterval with confidenceLevel a double.  The frames   *)
(* are whole numbers of ms, so that the statistics of the resamples are the *)
(* same in doubles; the two indexes are computed in doubles.                *)

\* 0.2
LevelFifth == HexDouble(<<9, 9, 9, 9, 9, 9, 9, 9, 9, 9, 9, 9, 10>>, -3)

\* the default 0.95
LevelDefault == HexDouble(<<14, 6, 6, 6, 6, 6, 6, 6, 6, 6, 6, 6, 6>>, -1)

\* 0.9999999999999999, the last double below 1
LevelBelowOne == HexDouble(<<15, 15, 15, 15, 15, 15, 15, 15, 15, 15, 15, 15, 15>>, -1)

DoubleLevels == {LevelFifth, LevelDefault, LevelBelowOne}

\* the interval read from the sorted statistics at the two indexes
intervalAt(sorted, lowerIndex, upperIndex, originalStat) ==
  [lower |-> at(sorted, lowerIndex),
   upper |-> at(sorted, upperIndex),
   mean  |-> originalStat]

\* bootstrapConfidenceInterval after the loop: sort, indexes, result
intervalOfDoubles(collected, iterations, confidenceLevel, originalStat) ==
  intervalAt(SortNumbers(collected),
             lowerIndexOf(iterations, confidenceLevel),
             upperIndexOf(iterations, confidenceLevel),
             originalStat)

\* bootstrapConfidenceInterval(data, statFunc, iterations, confidenceLevel)
\* up to the resampling loop
CallBootstrapAtLevel ==
  /\ bootPc # "resampling"
  /\ \E data \in {TenFrames, NineFrames}, f \in StatFuncs, n \in 1..MaxIterations,
        level \in DoubleLevels :
        /\ bootData' = data
        /\ bootFunc' = f
        /\ bootIterations' = n
        /\ bootLevel' = level
        /\ bootStats' = <<>>
        /\ IF Len(data) < minBootstrapLength
           THEN /\ bootPc' = "returned"
                /\ bootCI' = [lower |-> NaN, upper |-> NaN, mean |-> NaN]
           ELSE /\ bootPc' = "resampling"
                /\ bootCI' = NoResult
  /\ UNCHANGED NotBoot

\* after the loop: the sort and the return
ReturnIntervalAtLevel ==
  /\ bootPc = "resampling"
  /\ Len(bootStats) = bootIterations
  /\ bootCI' = intervalOfDoubles(bootStats, bootIterations, bootLevel,
                                 statFunc(bootFunc, bootData))
  /\ bootPc' = "returned"
  /\ UNCHANGED <<bootData, bootFunc, bootIterations, bootLevel, bootStats, NotBoot>>

NextBootLevels == CallBootstrapAtLevel \/ Resample \/ ReturnIntervalAtLevel

SpecBootLevels == InitBoot /\ [][NextBootLevels]_vars

----------------------------------------------------------------------------
\* the indexes of a returned call are those of its arrays of statistics
IndexesInside ==
  /\ lowerIndexOf(bootIterations, bootLevel) \in 0..(bootIterations - 1)
  /\ upperIndexOf(bootIterations, bootLevel) \in 0..(bootIterations - 1)

\* the smallest and the largest value of the sample
SampleMin == KthSmallest(AsNumbers(bootData), 1)

SampleMax == KthSmallest(AsNumbers(bootData), Len(bootData))

\* C30: for a sample of at least 10 values, iterations >= 1 and 0 <
\* confidenceLevel < 1, whatever the resamples, both indexes lie in
\* 0..iterations-1 and lower <= upper; for the median both bounds lie
\* between the minimum and the maximum of the sample.
C30_IndexesAndBoundsInRange ==
  Bootstrapped =>
    /\ IndexesInside
    /\ RLe(bootCI.lower, bootCI.upper)
    /\ bootFunc = "median" =>
          /\ RLe(SampleMin, bootCI.lower)
          /\ RLe(bootCI.upper, SampleMax)

\* C30, what holds: the same for the confidence levels other than the last
\* double below 1, and there also for the 1 % low; at that level
\* the lower index is 0 and the upper index is iterations, where bootStats
\* has no value
C30_InRangeBelowLastLevel ==
  Bootstrapped =>
    IF bootLevel = LevelBelowOne
    THEN /\ lowerIndexOf(bootIterations, bootLevel) = 0
         /\ upperIndexOf(bootIterations, bootLevel) = bootIterations
         /\ RLe(SampleMin, bootCI.lower) /\ RLe(bootCI.lower, SampleMax)
         /\ bootCI.upper = Undefined
    ELSE /\ IndexesInside
         /\ RLe(bootCI.lower, bootCI.upper)
         /\ RLe(SampleMin, bootCI.lower)
         /\ RLe(bootCI.upper, SampleMax)

\* C30, reached: at the default level, three resamples with bounds that
\* differ and lie strictly inside the sample
C30_ReachedInside ==
  /\ Bootstrapped
  /\ bootLevel = LevelDefault
  /\ bootIterations = 3
  /\ RLt(bootCI.lower, bootCI.upper)

====
